---- MODULE Spec2Model ----
(***************************************************************************)
(* Stratification and magic-set rewriting of normal-form Datalog programs  *)
(* (src/query/stratify.rs, src/query/magic.rs).                            *)
(***************************************************************************)
EXTENDS Integers, Sequences, FiniteSets, TLC

VARIABLES
    pc,                \* position inside NormalFormProgram::stratify
    prog,              \* self.prog : name -> rules or algo
    stratified_graph,  \* name -> (name -> poisoned)
    reachable,         \* names reachable from the entry
    sccs,              \* Vec<BTreeSet<&Symbol>>
    err,               \* the error returned, if any
    invert_indices,    \* name -> scc index
    reduced_graph,     \* scc index -> (scc index -> poisoned)
    sort_result,       \* Vec<Vec<usize>> of generalized_kahn
    ret,               \* the strata returned
    mpc,               \* position inside magic_sets_rewrite, for one stratum
    nf_prog,           \* the stratum being rewritten
    exempt_rules,      \* the rules not subject to rewriting
    pending_adornment, \* the worklist of adorn
    adorned_prog,      \* the adorned program
    rewrite_queue,     \* the rule sets magic_rewrite has still to visit
    ret_prog,          \* the rewritten program
    collected,         \* the rewritten strata
    apc,               \* position inside the algorithm that is running
    ain,               \* what the algorithm was called with
    al,                \* the local variables of the algorithm
    out,               \* the tuples put into the output relation
    poison,            \* whether the cancellation token is tripped
    ares,              \* what the algorithm returned
    env                \* a MemoryEnv: root, and stack with the innermost frame last

svars == <<pc, prog, stratified_graph, reachable, sccs, err, invert_indices,
           reduced_graph, sort_result, ret>>

mvars == <<mpc, nf_prog, exempt_rules, pending_adornment, adorned_prog,
           rewrite_queue, ret_prog, collected>>

avars == <<apc, ain, al, out, poison, ares>>

evars == <<env>>

vars == <<svars, mvars, avars, evars>>

----------------------------------------------------------------------------
(* Symbols: compared by name only.                                         *)

PROG_ENTRY == "?"

SymbolOrder == <<"?", "X", "Y", "p", "q", "s">>

Symbols == {SymbolOrder[i] : i \in 1..Len(SymbolOrder)}

RuleNames == {"?", "p", "q"}

SymIdx(s) == CHOOSE i \in 1..Len(SymbolOrder) : SymbolOrder[i] = s

\* Symbol::cmp
SymLt(a, b) == SymIdx(a) < SymIdx(b)

\* the elements of a set of symbols in BTreeSet / BTreeMap iteration order
RECURSIVE SortedSyms(_)
SortedSyms(S) ==
    IF S = {} THEN <<>>
    ELSE LET m == CHOOSE x \in S : \A y \in S : ~SymLt(y, x)
         IN <<m>> \o SortedSyms(S \ {m})

EmptyMap == <<>>

\* BTreeMap::insert
MapPut(m, k, v) == [x \in (DOMAIN m) \cup {k} |-> IF x = k THEN v ELSE m[x]]

----------------------------------------------------------------------------
(* Program IR.                                                             *)

Atom(tag, name, args) == [tag |-> tag, name |-> name, args |-> args]

InlineRule(head, aggr, body) == [head |-> head, aggr |-> aggr, body |-> body]

Rules(rules) == [algo |-> FALSE, rules |-> rules, rule_args |-> <<>>]

Algo(rule_args) == [algo |-> TRUE, rules |-> <<>>, rule_args |-> rule_args]

AlgoArg(tag, name) == [tag |-> tag, name |-> name]

----------------------------------------------------------------------------
(* convert_normal_form_program_to_graph                                    *)

contained_rules(atom) ==
    IF atom.tag = "Rule" THEN <<[key |-> atom.name, neg |-> FALSE]>>
    ELSE IF atom.tag = "NegatedRule" THEN <<[key |-> atom.name, neg |-> TRUE]>>
    ELSE <<>>

HasAggr(ruleset) ==
    \E i \in 1..Len(ruleset) :
        \E j \in 1..Len(ruleset[i].aggr) : ruleset[i].aggr[j] # "None"

IsMeet(ruleset) ==
    /\ HasAggr(ruleset)
    /\ \A i \in 1..Len(ruleset) :
        \A j \in 1..Len(ruleset[i].aggr) :
            ruleset[i].aggr[j] \in {"None", "Meet"}

meet_rules(p) == {k \in DOMAIN p : ~p[k].algo /\ IsMeet(p[k].rules)}

algo_rules(p) == {k \in DOMAIN p : p[k].algo}

\* a mutant: self-recursion of any aggregated rule is taken as monotone
PoisonVacantAnyAggr(has_aggr, is_meet, same, is_algo, callee_meet, is_negated) ==
    IF has_aggr
    THEN IF same THEN is_algo \/ is_negated ELSE TRUE
    ELSE is_algo \/ callee_meet \/ is_negated

\* Entry::Vacant
PoisonVacant(has_aggr, is_meet, same, is_algo, callee_meet, is_negated) ==
    IF has_aggr
    THEN IF is_meet /\ same THEN is_algo \/ is_negated ELSE TRUE
    ELSE is_algo \/ callee_meet \/ is_negated

\* a mutant: a later occurrence overwrites the flag
PoisonOccupiedOverwrite(old, has_aggr, is_meet, same, is_algo, callee_meet, is_negated) ==
    IF has_aggr
    THEN IF is_meet /\ same THEN is_algo \/ callee_meet \/ is_negated ELSE TRUE
    ELSE is_algo \/ callee_meet \/ is_negated

\* Entry::Occupied
PoisonOccupied(old, has_aggr, is_meet, same, is_algo, callee_meet, is_negated) ==
    LET new_val == IF has_aggr
                   THEN IF is_meet /\ same
                        THEN is_algo \/ callee_meet \/ is_negated
                        ELSE TRUE
                   ELSE is_algo \/ callee_meet \/ is_negated
    IN old \/ new_val

\* the (found_key, is_negated) pairs of a rule set, rule by rule, atom by atom
RECURSIVE BodyCites(_)
BodyCites(body) ==
    IF body = <<>> THEN <<>>
    ELSE contained_rules(Head(body)) \o BodyCites(Tail(body))

RECURSIVE RuleSetCites(_)
RuleSetCites(ruleset) ==
    IF ruleset = <<>> THEN <<>>
    ELSE BodyCites(Head(ruleset).body) \o RuleSetCites(Tail(ruleset))

RECURSIVE EdgeFold(_, _, _, _)
EdgeFold(p, k, cites, acc) ==
    IF cites = <<>> THEN acc
    ELSE LET c == Head(cites)
             has_aggr == HasAggr(p[k].rules)
             is_meet == IsMeet(p[k].rules)
             found_key_is_meet == c.key \in meet_rules(p) /\ c.key # k
             found_key_is_algo == c.key \in algo_rules(p)
             v == IF c.key \notin DOMAIN acc
                  THEN PoisonVacant(has_aggr, is_meet, k = c.key,
                                    found_key_is_algo, found_key_is_meet, c.neg)
                  ELSE PoisonOccupied(acc[c.key], has_aggr, is_meet, k = c.key,
                                      found_key_is_algo, found_key_is_meet, c.neg)
         IN EdgeFold(p, k, Tail(cites), MapPut(acc, c.key, v))

\* a mutant: every argument of an algorithm rule gives an edge
RECURSIVE AlgoEdgesAllArgs(_, _)
AlgoEdgesAllArgs(rule_args, acc) ==
    IF rule_args = <<>> THEN acc
    ELSE AlgoEdgesAllArgs(Tail(rule_args), MapPut(acc, Head(rule_args).name, TRUE))

RECURSIVE AlgoEdges(_, _)
AlgoEdges(rule_args, acc) ==
    IF rule_args = <<>> THEN acc
    ELSE LET rel == Head(rule_args)
         IN AlgoEdges(Tail(rule_args),
                      IF rel.tag = "InMem" THEN MapPut(acc, rel.name, TRUE) ELSE acc)

convert_normal_form_program_to_graph(p) ==
    [k \in DOMAIN p |->
        IF p[k].algo
        THEN AlgoEdges(p[k].rule_args, EmptyMap)
        ELSE EdgeFold(p, k, RuleSetCites(p[k].rules), EmptyMap)]

reduce_to_graph(g) == [k \in DOMAIN g |-> DOMAIN g[k]]

----------------------------------------------------------------------------
(* query::graph helpers used by stratify                                   *)

RECURSIVE ReachFrom(_, _)
ReachFrom(g, S) ==
    LET N == S \cup UNION {g[k] : k \in S \cap DOMAIN g}
    IN IF N = S THEN S ELSE ReachFrom(g, N)

reachable_components(g, start) == ReachFrom(g, {start})

SccOf(g, k) ==
    {j \in DOMAIN g : j \in ReachFrom(g, {k}) /\ k \in ReachFrom(g, {j})}

RECURSIVE SccList(_, _)
SccList(g, keys) ==
    IF keys = <<>> THEN <<>>
    ELSE LET c == SccOf(g, Head(keys))
         IN <<c>> \o SccList(g, SelectSeq(Tail(keys), LAMBDA x : x \notin c))

strongly_connected_components(g) == SccList(g, SortedSyms(DOMAIN g))

RECURSIVE KahnLayers(_, _)
KahnLayers(g, remaining) ==
    LET zero == {n \in remaining :
                    \A m \in remaining \cap DOMAIN g : n \notin DOMAIN g[m]}
    IN IF remaining = {} \/ zero = {} THEN <<>>
       ELSE <<zero>> \o KahnLayers(g, remaining \ zero)

generalized_kahn(g, num_nodes) == KahnLayers(g, 0..(num_nodes - 1))

----------------------------------------------------------------------------
(* stratify.rs                                                             *)

NoError == [kind |-> "none", callee |-> "", scc |-> {}]

UnStratifiableProgram(v, scc) == [kind |-> "unstratifiable", callee |-> v, scc |-> scc]

\* a mutant: a self-edge is never looked at
ForbiddenNoSelf(g, scc, k, v) == v # k /\ g[k][v] /\ v \in scc

\* the negation of the ensure! condition for edge k -> v, k in scc
Forbidden(g, scc, k, v) == g[k][v] /\ v \in scc

SccContaining(cs, k) == cs[CHOOSE i \in 1..Len(cs) : k \in cs[i]]

verify_no_cycle(g, cs) ==
    LET bad(k) == {v \in DOMAIN g[k] : Forbidden(g, SccContaining(cs, k), k, v)}
        ks == SelectSeq(SortedSyms(DOMAIN g), LAMBDA k : bad(k) # {})
    IN IF ks = <<>> THEN NoError
       ELSE UnStratifiableProgram(Head(SortedSyms(bad(Head(ks)))),
                                  SccContaining(cs, Head(ks)))

SccIndices(cs) ==
    [k \in UNION {cs[i] : i \in 1..Len(cs)} |->
        (CHOOSE i \in 1..Len(cs) : k \in cs[i]) - 1]

\* a mutant: the condensed edges point from callee to caller
ReducedEdgesReversed(indices, graph, from_idx) ==
    LET calls(a, b) == \E from \in DOMAIN graph : \E to \in DOMAIN graph[from] :
                           /\ to \in DOMAIN indices
                           /\ indices[from] = a /\ indices[to] = b
        tos == {i \in {indices[n] : n \in DOMAIN indices} :
                    i # from_idx /\ calls(i, from_idx)}
    IN [to_idx \in tos |->
           \E from \in DOMAIN graph : \E to \in DOMAIN graph[from] :
               /\ to \in DOMAIN indices
               /\ indices[from] = to_idx /\ indices[to] = from_idx
               /\ graph[from][to]]

\* the edges leaving SCC from_idx: self-edges and unknown callees are skipped,
\* poisoning is OR-accumulated
ReducedEdges(indices, graph, from_idx) ==
    LET tos == {indices[to] :
                    to \in {t \in DOMAIN indices :
                              /\ indices[t] # from_idx
                              /\ \E from \in DOMAIN graph :
                                    indices[from] = from_idx /\ t \in DOMAIN graph[from]}}
    IN [to_idx \in tos |->
           \E from \in DOMAIN graph : \E to \in DOMAIN graph[from] :
               /\ to \in DOMAIN indices
               /\ indices[from] = from_idx /\ indices[to] = to_idx
               /\ graph[from][to]]

make_scc_reduced_graph(cs, graph) ==
    LET indices == SccIndices(cs)
    IN [indices |-> indices,
        graph |-> [from_idx \in {indices[from] : from \in DOMAIN graph} |->
                      ReducedEdges(indices, graph, from_idx)]]

\* a mutant: nothing is pruned
PruneNothing(m, keep) == m

\* stratified_graph / graph filtered to the reachable keys
Prune(m, keep) == [k \in (DOMAIN m) \cap keep |-> m[k]]

\* a mutant: the SCC index is taken for the stratum index
TranslateBySccIndex(p, indices, sorted) ==
    [i \in 1..Len(sorted) |->
        [name \in {n \in DOMAIN p : n \in DOMAIN indices /\ indices[n] = i - 1}
            |-> p[name]]]

\* step 7: every rule set goes to the stratum of its SCC
Translate(p, indices, sorted) ==
    [i \in 1..Len(sorted) |->
        [name \in {n \in DOMAIN p : n \in DOMAIN indices /\ indices[n] \in sorted[i]}
            |-> p[name]]]

Stratify(p) ==
    LET g0 == convert_normal_form_program_to_graph(p)
        rs == reachable_components(reduce_to_graph(g0), PROG_ENTRY)
        g == Prune(g0, rs)
        cs == strongly_connected_components(Prune(reduce_to_graph(g0), rs))
        e == verify_no_cycle(g, cs)
        red == make_scc_reduced_graph(cs, g)
        sorted == generalized_kahn(red.graph, Cardinality(DOMAIN g))
    IN IF e.kind # "none" THEN [err |-> e, strata |-> <<>>]
       ELSE [err |-> NoError, strata |-> Translate(p, red.indices, sorted)]

----------------------------------------------------------------------------
(* Input programs.                                                         *)

MaxAtoms == 3

MaxCites == 2

RECURSIVE SubsetsUpTo(_, _)
SubsetsUpTo(S, n) ==
    IF n = 0 THEN {{}}
    ELSE LET P == SubsetsUpTo(S, n - 1)
         IN P \cup {A \cup {x} : A \in P, x \in S}

PlainAggr == <<"None", "None">>

AggrChoices == {PlainAggr, <<"None", "Meet">>, <<"NonMeet", "Meet">>}

HeadVars == <<"X", "Y">>

CallAtom(name, neg) ==
    Atom(IF neg THEN "NegatedRule" ELSE "Rule", name, HeadVars)

\* rule references as (caller, callee, negated)
Refs == RuleNames \X RuleNames \X BOOLEAN

RefsOf(E, k) == {e \in E : e[1] = k}

RECURSIVE RefBody(_)
RefBody(E) ==
    IF E = {} THEN <<>>
    ELSE LET e == CHOOSE x \in E : \A y \in E :
                      \/ SymLt(x[2], y[2])
                      \/ x[2] = y[2] /\ (x[3] => y[3])
         IN <<CallAtom(e[2], e[3])>> \o RefBody(E \ {e})

RECURSIVE RefArgs(_)
RefArgs(S) ==
    IF S = <<>> THEN <<AlgoArg("Stored", "r")>>
    ELSE <<AlgoArg("InMem", Head(S))>> \o RefArgs(Tail(S))

\* one rule per name, its body the references of E; the names of algos are
\* algorithm applications over the rules they refer to
RefProgram(E, present, algos) ==
    [k \in present |->
        IF k \in algos
        THEN Algo(RefArgs(SortedSyms({e[2] : e \in RefsOf(E, k)})))
        ELSE Rules(<<InlineRule(HeadVars, PlainAggr, RefBody(RefsOf(E, k)))>>)]

RefPrograms ==
    {RefProgram(x[1], x[2], x[3]) :
        x \in {y \in SubsetsUpTo(Refs, MaxAtoms) \X (SUBSET RuleNames) \X (SUBSET (RuleNames \ {PROG_ENTRY})) :
                /\ {e[1] : e \in y[1]} \cup {e[2] : e \in y[1]} \subseteq y[2]
                /\ y[3] \subseteq y[2]
                /\ \A e \in y[1] : e[1] \in y[3] => ~e[3]}}

\* the rule set of "p" in detail: a sequence of references cut into rules
CiteAtoms == {CallAtom(n, neg) : n \in {"p", "q"}, neg \in BOOLEAN}

CutRules(s, brk, ak) ==
    LET starts == {j \in 1..Len(s) : j = 1 \/ brk[j]}
        nth(i) == CHOOSE j \in starts : Cardinality({x \in starts : x <= j}) = i
        n == Cardinality(starts)
        last(i) == IF i = n THEN Len(s) ELSE nth(i + 1) - 1
    IN [i \in 1..n |-> InlineRule(HeadVars, ak[nth(i)], SubSeq(s, nth(i), last(i)))]

CalleeChoices ==
    {Rules(<<InlineRule(HeadVars, a, <<>>)>>) : a \in {PlainAggr, <<"None", "Meet">>}}
        \cup {Algo(<<AlgoArg("Stored", "r")>>)}

CitePrograms ==
    UNION {{("?" :> Rules(<<InlineRule(HeadVars, PlainAggr, <<CallAtom("p", FALSE)>>)>>))
              @@ ("p" :> Rules(CutRules(s, brk, ak))) @@ ("q" :> c) :
                s \in [1..t -> CiteAtoms], brk \in [1..t -> BOOLEAN],
                ak \in [1..t -> AggrChoices], c \in CalleeChoices} : t \in 1..MaxCites}

\* MemoryEnv::default(), left alone
EnvIdle == env = [root |-> EmptyMap, stack |-> <<EmptyMap>>]

\* no algorithm is running
AlgoIdle ==
    /\ apc = "idle"
    /\ ain = <<>>
    /\ al = <<>>
    /\ out = {}
    /\ poison = FALSE
    /\ ares = "none"

\* no stratum is being rewritten
MagicIdle ==
    /\ mpc = "idle"
    /\ nf_prog = EmptyMap
    /\ exempt_rules = {}
    /\ pending_adornment = <<>>
    /\ adorned_prog = EmptyMap
    /\ rewrite_queue = <<>>
    /\ ret_prog = EmptyMap
    /\ collected = <<>>

----------------------------------------------------------------------------
(* NormalFormProgram::stratify, step by step                               *)

Init ==
    /\ prog \in RefPrograms \cup CitePrograms
    /\ pc = "graph"
    /\ stratified_graph = EmptyMap
    /\ reachable = {}
    /\ sccs = <<>>
    /\ err = NoError
    /\ invert_indices = EmptyMap
    /\ reduced_graph = EmptyMap
    /\ sort_result = <<>>
    /\ ret = <<>>
    /\ MagicIdle
    /\ AlgoIdle
    /\ EnvIdle

\* 0. build a graph of the program
BuildGraph ==
    /\ pc = "graph"
    /\ stratified_graph' = convert_normal_form_program_to_graph(prog)
    /\ pc' = "reach"
    /\ UNCHANGED <<prog, reachable, sccs, err, invert_indices, reduced_graph,
                   sort_result, ret>>
    /\ UNCHANGED <<mvars, avars, evars>>

\* 1. find the reachable clauses, 2. prune the graph
FindReachable ==
    /\ pc = "reach"
    /\ reachable' = reachable_components(reduce_to_graph(stratified_graph), PROG_ENTRY)
    /\ stratified_graph' = Prune(stratified_graph, reachable')
    /\ pc' = "scc"
    /\ UNCHANGED <<prog, sccs, err, invert_indices, reduced_graph, sort_result, ret>>
    /\ UNCHANGED <<mvars, avars, evars>>

\* 3. find the SCCs, 4. verify them
FindSccs ==
    /\ pc = "scc"
    /\ sccs' = strongly_connected_components(reduce_to_graph(stratified_graph))
    /\ err' = verify_no_cycle(stratified_graph, sccs')
    /\ pc' = IF err'.kind = "none" THEN "reduce" ELSE "failed"
    /\ UNCHANGED <<prog, stratified_graph, reachable, invert_indices, reduced_graph,
                   sort_result, ret>>
    /\ UNCHANGED <<mvars, avars, evars>>

\* 5. build the reduced graph, 6. sort it
SortSccs ==
    /\ pc = "reduce"
    /\ LET red == make_scc_reduced_graph(sccs, stratified_graph)
       IN /\ invert_indices' = red.indices
          /\ reduced_graph' = red.graph
          /\ sort_result' = generalized_kahn(red.graph, Cardinality(DOMAIN stratified_graph))
    /\ pc' = "translate"
    /\ UNCHANGED <<prog, stratified_graph, reachable, sccs, err, ret>>
    /\ UNCHANGED <<mvars, avars, evars>>

\* 7. translate the stratification into programs
EmitStrata ==
    /\ pc = "translate"
    /\ ret' = Translate(prog, invert_indices, sort_result)
    /\ pc' = "done"
    /\ UNCHANGED <<prog, stratified_graph, reachable, sccs, err, invert_indices,
                   reduced_graph, sort_result>>
    /\ UNCHANGED <<mvars, avars, evars>>

Next ==
    \/ BuildGraph
    \/ FindReachable
    \/ FindSccs
    \/ SortSccs
    \/ EmitStrata

Spec == Init /\ [][Next]_vars

----------------------------------------------------------------------------
(* magic.rs: MagicSymbol and the magic program                             *)

Muggle(inner) ==
    [kind |-> "Muggle", inner |-> inner, adornment |-> <<>>, rule_idx |-> 0, sup_idx |-> 0]

Magic(inner, adornment) ==
    [kind |-> "Magic", inner |-> inner, adornment |-> adornment, rule_idx |-> 0, sup_idx |-> 0]

Input(inner, adornment) ==
    [kind |-> "Input", inner |-> inner, adornment |-> adornment, rule_idx |-> 0, sup_idx |-> 0]

Sup(inner, adornment, rule_idx, sup_idx) ==
    [kind |-> "Sup", inner |-> inner, adornment |-> adornment,
     rule_idx |-> rule_idx, sup_idx |-> sup_idx]

\* the name of a stored relation or of no rule at all, in the place of a MagicSymbol
Plain(name) ==
    [kind |-> "Stored", inner |-> name, adornment |-> <<>>, rule_idx |-> 0, sup_idx |-> 0]

magic_adornment(sym) == IF sym.kind = "Muggle" THEN <<>> ELSE sym.adornment

has_bound_adornment(sym) ==
    \E i \in 1..Len(magic_adornment(sym)) : magic_adornment(sym)[i]

KindRank(kind) ==
    CASE kind = "Muggle" -> 0 [] kind = "Magic" -> 1 [] kind = "Input" -> 2 [] OTHER -> 3

RECURSIVE BitsLt(_, _)
BitsLt(a, b) ==
    IF a = <<>> THEN b # <<>>
    ELSE IF b = <<>> THEN FALSE
    ELSE IF Head(a) # Head(b) THEN ~Head(a)
    ELSE BitsLt(Tail(a), Tail(b))

\* the derived order of MagicSymbol
MagicSymLt(a, b) ==
    IF a.kind # b.kind THEN KindRank(a.kind) < KindRank(b.kind)
    ELSE IF a.inner # b.inner THEN SymLt(a.inner, b.inner)
    ELSE IF a.adornment # b.adornment THEN BitsLt(a.adornment, b.adornment)
    ELSE IF a.rule_idx # b.rule_idx THEN a.rule_idx < b.rule_idx
    ELSE a.sup_idx < b.sup_idx

RECURSIVE SortedMagicSyms(_)
SortedMagicSyms(S) ==
    IF S = {} THEN <<>>
    ELSE LET m == CHOOSE x \in S : \A y \in S : ~MagicSymLt(y, x)
         IN <<m>> \o SortedMagicSyms(S \ {m})

\* the arguments at the set positions of an adornment (zip + filter_map)
RECURSIVE BoundArgs(_, _)
BoundArgs(args, adornment) ==
    IF args = <<>> \/ adornment = <<>> THEN <<>>
    ELSE (IF Head(adornment) THEN <<Head(args)>> ELSE <<>>)
            \o BoundArgs(Tail(args), Tail(adornment))

SeqSet(q) == {q[i] : i \in 1..Len(q)}

NoAggr(n) == [i \in 1..n |-> "None"]

\* prog.entry(key).or_default().mut_rules().unwrap().push(rule)
PushRule(mp, key, rule) ==
    IF key \in DOMAIN mp
    THEN [mp EXCEPT ![key].rules = Append(@, rule)]
    ELSE MapPut(mp, key, Rules(<<rule>>))

----------------------------------------------------------------------------
(* exempt_aggr_rules_for_magic_sets, get_downstream_rules                  *)

exempt_aggr_rules_for_magic_sets(p, exempt) ==
    exempt \cup {name \in DOMAIN p : ~p[name].algo /\ HasAggr(p[name].rules)}

\* a mutant: nothing is handed down to the later strata
get_downstream_rules_none(p) == {}

get_downstream_rules(p) ==
    UNION {IF p[k].algo
           THEN {p[k].rule_args[i].name :
                    i \in {j \in 1..Len(p[k].rule_args) : p[k].rule_args[j].tag = "InMem"}}
           ELSE {c.key : c \in SeqSet(RuleSetCites(p[k].rules))} \ DOMAIN p
           : k \in DOMAIN p}

----------------------------------------------------------------------------
(* adornment                                                               *)

\* adornment.push(!seen_bindings.insert(arg)) for each arg in turn
RECURSIVE AdornBits(_, _)
AdornBits(args, seen) ==
    IF args = <<>> THEN <<>>
    ELSE <<Head(args) \in seen>> \o AdornBits(Tail(args), seen \cup {Head(args)})

\* NormalFormAtom::adorn: the new atom, the symbols pushed, the bindings seen
AdornAtom(atom, seen, rules_to_rewrite) ==
    CASE atom.tag = "Relation" ->
            [atom |-> Atom("Relation", Plain(atom.name), atom.args),
             pushed |-> <<>>, seen |-> seen \cup SeqSet(atom.args)]
      [] atom.tag = "Predicate" ->
            [atom |-> Atom("Predicate", Plain(atom.name), atom.args),
             pushed |-> <<>>, seen |-> seen]
      [] atom.tag = "Rule" ->
            IF atom.name \in rules_to_rewrite
            THEN LET name == Magic(atom.name, AdornBits(atom.args, seen))
                 IN [atom |-> Atom("Rule", name, atom.args),
                     pushed |-> <<name>>, seen |-> seen \cup SeqSet(atom.args)]
            ELSE [atom |-> Atom("Rule", Muggle(atom.name), atom.args),
                  pushed |-> <<>>, seen |-> seen]
      [] atom.tag = "NegatedRule" ->
            [atom |-> Atom("NegatedRule", Muggle(atom.name), atom.args),
             pushed |-> <<>>, seen |-> seen]
      [] atom.tag = "NegatedRelation" ->
            [atom |-> Atom("NegatedRelation", Plain(atom.name), atom.args),
             pushed |-> <<>>, seen |-> seen]
      [] OTHER ->
            [atom |-> Atom("Unification", Plain(atom.name), atom.args),
             pushed |-> <<>>, seen |-> seen \cup SeqSet(atom.args)]

\* the body loop of NormalFormInlineRule::adorn
RECURSIVE AdornBody(_, _, _)
AdornBody(body, seen, rules_to_rewrite) ==
    IF body = <<>> THEN [body |-> <<>>, pushed |-> <<>>]
    ELSE LET a == AdornAtom(Head(body), seen, rules_to_rewrite)
             rest == AdornBody(Tail(body), a.seen, rules_to_rewrite)
         IN [body |-> <<a.atom>> \o rest.body, pushed |-> a.pushed \o rest.pushed]

\* NormalFormInlineRule::adorn
AdornRule(rule, seen, rules_to_rewrite) ==
    LET b == AdornBody(rule.body, seen, rules_to_rewrite)
    IN [rule |-> InlineRule(rule.head, rule.aggr, b.body), pushed |-> b.pushed]

RECURSIVE AdornRules(_, _, _)
AdornRules(rules, adornment, rules_to_rewrite) ==
    IF rules = <<>> THEN [rules |-> <<>>, pushed |-> <<>>]
    ELSE LET r == AdornRule(Head(rules), SeqSet(BoundArgs(Head(rules).head, adornment)),
                            rules_to_rewrite)
             rest == AdornRules(Tail(rules), adornment, rules_to_rewrite)
         IN [rules |-> <<r.rule>> \o rest.rules, pushed |-> r.pushed \o rest.pushed]

MagicAlgoArg(rel) ==
    IF rel.tag = "InMem" THEN [tag |-> "InMem", name |-> Muggle(rel.name)]
    ELSE [tag |-> "Stored", name |-> Plain(rel.name)]

rules_to_rewrite_of(p, upstream) == DOMAIN p \ upstream

\* the first loop of NormalFormProgram::adorn: the rule sets not subject to rewriting
RECURSIVE AdornExempt(_, _, _, _)
AdornExempt(p, names, rules_to_rewrite, acc) ==
    IF names = <<>> THEN acc
    ELSE LET n == Head(names)
         IN IF p[n].algo
            THEN AdornExempt(p, Tail(names), rules_to_rewrite,
                    [prog |-> MapPut(acc.prog, Muggle(n),
                                 Algo([i \in 1..Len(p[n].rule_args) |->
                                          MagicAlgoArg(p[n].rule_args[i])])),
                     pending |-> acc.pending])
            ELSE LET r == AdornRules(p[n].rules, <<>>, rules_to_rewrite)
                 IN AdornExempt(p, Tail(names), rules_to_rewrite,
                        [prog |-> MapPut(acc.prog, Muggle(n), Rules(r.rules)),
                         pending |-> acc.pending \o r.pushed])

\* a mutant: a popped head is adorned again although it is already there
AdornPopAgain(p, rules_to_rewrite, adorned, pending) ==
    LET head == pending[Len(pending)]
        rest == SubSeq(pending, 1, Len(pending) - 1)
        r == AdornRules(p[head.inner].rules, magic_adornment(head), rules_to_rewrite)
    IN [prog |-> MapPut(adorned, head, Rules(r.rules)), pending |-> rest \o r.pushed]

\* one turn of the worklist loop of NormalFormProgram::adorn
AdornPop(p, rules_to_rewrite, adorned, pending) ==
    LET head == pending[Len(pending)]
        rest == SubSeq(pending, 1, Len(pending) - 1)
    IN IF head \in DOMAIN adorned
       THEN [prog |-> adorned, pending |-> rest]
       ELSE LET r == AdornRules(p[head.inner].rules, magic_adornment(head), rules_to_rewrite)
            IN [prog |-> MapPut(adorned, head, Rules(r.rules)),
                pending |-> rest \o r.pushed]

----------------------------------------------------------------------------
(* magic_rewrite_ruleset                                                   *)

RuleApp(name, args) == Atom("Rule", name, args)

\* a mutant: every call of a Magic rule gets a supplementary rule
NeedsSupAnyMagic(name) == name.kind = "Magic"

\* a mutant: no call gets a supplementary rule and an input rule
NeedsSupNever(name) == FALSE

\* if r_app.name.has_bound_adornment()
NeedsSup(name) == has_bound_adornment(name)

\* a mutant: all call-site arguments become the head of the input rule
InpArgsAll(args, adornment) == args

\* inp_args: the call-site arguments at the bound positions
InpArgs(args, adornment) == BoundArgs(args, adornment)

\* a mutant: the variables seen so far in descending order
SupHeadDescending(seen) ==
    LET up == SortedSyms(seen) IN [i \in 1..Len(up) |-> up[Len(up) + 1 - i]]

\* seen_bindings.iter().cloned().collect_vec()
SupHead(seen) == SortedSyms(seen)

\* a mutant: the rewritten rule loses its aggregators
RewrittenRuleNoAggr(rule, collected_atoms) ==
    InlineRule(rule.head, NoAggr(Len(rule.head)), collected_atoms)

\* the rule pushed under rule_head at the end
RewrittenRule(rule, collected_atoms) ==
    InlineRule(rule.head, rule.aggr, collected_atoms)

\* a mutant: make_sup_kw hands out the same index again
NextSupIdxStuck(sup_idx) == sup_idx

\* make_sup_kw: sup_idx += 1
NextSupIdx(sup_idx) == sup_idx + 1

\* SIP from the input rule when the head has bound args
SipStart(rule_head, rule_idx, rule, mp) ==
    IF has_bound_adornment(rule_head)
    THEN LET sup_kw == Sup(rule_head.inner, magic_adornment(rule_head), rule_idx, 0)
             sup_args == BoundArgs(rule.head, magic_adornment(rule_head))
             sup_body == <<RuleApp(Input(rule_head.inner, magic_adornment(rule_head)),
                                   sup_args)>>
         IN [sup_idx |-> NextSupIdx(0),
             collected |-> <<RuleApp(sup_kw, sup_args)>>,
             seen |-> SeqSet(sup_args),
             prog |-> MapPut(mp, sup_kw,
                        Rules(<<InlineRule(sup_args, NoAggr(Len(sup_args)), sup_body)>>))]
    ELSE [sup_idx |-> 0, collected |-> <<>>, seen |-> {}, prog |-> mp]

\* one body atom of the rule being rewritten
RewriteAtom(rule_head, rule_idx, atom, st) ==
    CASE atom.tag \in {"Predicate", "NegatedRule", "NegatedRelation"} ->
            [st EXCEPT !.collected = Append(@, atom)]
      [] atom.tag \in {"Relation", "Unification"} ->
            [st EXCEPT !.seen = @ \cup SeqSet(atom.args),
                       !.collected = Append(@, atom)]
      [] OTHER ->
            IF NeedsSup(atom.name)
            THEN LET sup_kw == Sup(rule_head.inner, magic_adornment(rule_head),
                                   rule_idx, st.sup_idx)
                     args == SupHead(st.seen)
                     sup_rule_app == RuleApp(sup_kw, args)
                     with_sup == PushRule(st.prog, sup_kw,
                                    InlineRule(args, NoAggr(Len(args)), st.collected))
                     inp_kw == Input(atom.name.inner, magic_adornment(atom.name))
                     inp_args == InpArgs(atom.args, magic_adornment(atom.name))
                 IN [sup_idx |-> NextSupIdx(st.sup_idx),
                     collected |-> <<sup_rule_app, atom>>,
                     seen |-> st.seen \cup SeqSet(atom.args),
                     prog |-> PushRule(with_sup, inp_kw,
                                InlineRule(inp_args, NoAggr(Len(inp_args)),
                                           <<sup_rule_app>>))]
            ELSE [st EXCEPT !.seen = @ \cup SeqSet(atom.args),
                            !.collected = Append(@, atom)]

RECURSIVE RewriteBody(_, _, _, _)
RewriteBody(rule_head, rule_idx, body, st) ==
    IF body = <<>> THEN st
    ELSE RewriteBody(rule_head, rule_idx, Tail(body),
                     RewriteAtom(rule_head, rule_idx, Head(body), st))

RECURSIVE RewriteRules(_, _, _, _)
RewriteRules(rule_head, ruleset, rule_idx, mp) ==
    IF rule_idx >= Len(ruleset) THEN mp
    ELSE LET rule == ruleset[rule_idx + 1]
             st == RewriteBody(rule_head, rule_idx, rule.body,
                               SipStart(rule_head, rule_idx, rule, mp))
         IN RewriteRules(rule_head, ruleset, rule_idx + 1,
                         PushRule(st.prog, rule_head, RewrittenRule(rule, st.collected)))

magic_rewrite_ruleset(rule_head, ruleset, mp) == RewriteRules(rule_head, ruleset, 0, mp)

----------------------------------------------------------------------------
(* Strata handed to magic_sets_rewrite.                                    *)

MaxMagicAtoms == 3

MeetAggr == <<"None", "Meet">>

MagicAtomChoices ==
    {Atom("Rule", "p", <<"X", "Y">>), Atom("Rule", "q", <<"X", "Y">>),
     Atom("Rule", "q", <<"Y", "Y">>), Atom("Relation", "r", <<"X">>),
     Atom("Unification", "", <<"Y">>), Atom("NegatedRule", "q", <<"X", "Y">>),
     Atom("Predicate", "", <<>>)}

\* the rules of "p": one rule, or two when the body is cut after cut atoms
CutInTwo(body, cut) ==
    IF cut = 0 THEN <<InlineRule(HeadVars, PlainAggr, body)>>
    ELSE <<InlineRule(HeadVars, PlainAggr, SubSeq(body, 1, cut)),
           InlineRule(HeadVars, PlainAggr, SubSeq(body, cut + 1, Len(body)))>>

StratumProgram(N, b, cut, qkind) ==
    [n \in N |->
        CASE n = PROG_ENTRY -> Rules(<<InlineRule(HeadVars, PlainAggr, b[n])>>)
          [] n = "p" -> Rules(CutInTwo(b[n], cut))
          [] OTHER ->
                CASE qkind = "algo" ->
                        Algo(<<AlgoArg("InMem", "s"), AlgoArg("Stored", "r")>>)
                  [] qkind = "meet" -> Rules(<<InlineRule(HeadVars, MeetAggr, b[n])>>)
                  [] OTHER -> Rules(<<InlineRule(HeadVars, PlainAggr, b[n])>>)]

BodyLens(N) ==
    {l \in [RuleNames -> 0..MaxMagicAtoms] :
        /\ l["?"] + l["p"] + l["q"] <= MaxMagicAtoms
        /\ \A n \in RuleNames \ N : l[n] = 0}

\* the stratifier leaves no poisoned edge inside a stratum, and an algorithm
\* rule is always referred to from an earlier stratum
Feasible(p, exempt) ==
    LET g == convert_normal_form_program_to_graph(p)
    IN /\ \A k \in DOMAIN p : \A f \in DOMAIN g[k] \cap DOMAIN p : ~g[k][f]
       /\ \A k \in DOMAIN p : p[k].algo => k \in exempt

Shapes ==
    {<<{"?"}, {"?"}>>, <<{"?", "p"}, {"?"}>>, <<{"?", "q"}, {"?"}>>,
     <<{"?", "p", "q"}, {"?"}>>, <<{"p"}, {"?", "p"}>>, <<{"p", "q"}, {"?", "p"}>>,
     <<{"p", "q"}, {"?", "p", "q"}>>}

QKinds(N, l) ==
    IF "q" \in N
    THEN IF l["q"] = 0 THEN {"plain", "meet", "algo"} ELSE {"plain", "meet"}
    ELSE {"plain"}

----------------------------------------------------------------------------
(* magic_sets_rewrite, one stratum, step by step                           *)

StratifyIdle ==
    /\ pc = "idle"
    /\ prog = EmptyMap
    /\ stratified_graph = EmptyMap
    /\ reachable = {}
    /\ sccs = <<>>
    /\ err = NoError
    /\ invert_indices = EmptyMap
    /\ reduced_graph = EmptyMap
    /\ sort_result = <<>>
    /\ ret = <<>>

InitMagic ==
    /\ StratifyIdle
    /\ EnvIdle
    /\ AlgoIdle
    /\ \E sh \in Shapes : \E l \in BodyLens(sh[1]) :
         \E be \in [1..l["?"] -> MagicAtomChoices],
            bp \in [1..l["p"] -> MagicAtomChoices],
            bq \in [1..l["q"] -> MagicAtomChoices],
            cut \in 0..l["p"], qkind \in QKinds(sh[1], l) :
            LET p == StratumProgram(sh[1], [n \in RuleNames |->
                        IF n = "?" THEN be ELSE IF n = "p" THEN bp ELSE bq],
                        cut, qkind)
            IN /\ Feasible(p, sh[2])
               /\ nf_prog = p
               /\ exempt_rules = sh[2]
    /\ mpc = "exempt"
    /\ pending_adornment = <<>>
    /\ adorned_prog = EmptyMap
    /\ rewrite_queue = <<>>
    /\ ret_prog = EmptyMap
    /\ collected = <<>>

\* prog.exempt_aggr_rules_for_magic_sets(&mut exempt_rules)
ExemptAggr ==
    /\ mpc = "exempt"
    /\ exempt_rules' = exempt_aggr_rules_for_magic_sets(nf_prog, exempt_rules)
    /\ mpc' = "adorn"
    /\ UNCHANGED <<nf_prog, pending_adornment, adorned_prog, rewrite_queue, ret_prog,
                   collected>>
    /\ UNCHANGED <<svars, avars, evars>>

\* adorn: the rule sets not subject to rewriting
AdornStart ==
    /\ mpc = "adorn"
    /\ LET r == AdornExempt(nf_prog,
                    SortedSyms(DOMAIN nf_prog \cap exempt_rules),
                    rules_to_rewrite_of(nf_prog, exempt_rules),
                    [prog |-> EmptyMap, pending |-> <<>>])
       IN /\ adorned_prog' = r.prog
          /\ pending_adornment' = r.pending
    /\ mpc' = "pending"
    /\ UNCHANGED <<nf_prog, exempt_rules, rewrite_queue, ret_prog, collected>>
    /\ UNCHANGED <<svars, avars, evars>>

\* adorn: while let Some(head) = pending_adornment.pop()
AdornPending ==
    /\ mpc = "pending"
    /\ pending_adornment # <<>>
    /\ LET r == AdornPop(nf_prog, rules_to_rewrite_of(nf_prog, exempt_rules),
                         adorned_prog, pending_adornment)
       IN /\ adorned_prog' = r.prog
          /\ pending_adornment' = r.pending
    /\ UNCHANGED <<mpc, nf_prog, exempt_rules, rewrite_queue, ret_prog, collected>>
    /\ UNCHANGED <<svars, avars, evars>>

\* adorn returns; magic_rewrite starts on the adorned program
MagicRewriteStart ==
    /\ mpc = "pending"
    /\ pending_adornment = <<>>
    /\ rewrite_queue' = SortedMagicSyms(DOMAIN adorned_prog)
    /\ ret_prog' = EmptyMap
    /\ mpc' = "rewrite"
    /\ UNCHANGED <<nf_prog, exempt_rules, pending_adornment, adorned_prog, collected>>
    /\ UNCHANGED <<svars, avars, evars>>

\* magic_rewrite: one (rule_head, ruleset) of the adorned program
MagicRewriteEntry ==
    /\ mpc = "rewrite"
    /\ rewrite_queue # <<>>
    /\ LET rule_head == Head(rewrite_queue)
       IN ret_prog' = IF adorned_prog[rule_head].algo
                      THEN MapPut(ret_prog, rule_head, adorned_prog[rule_head])
                      ELSE magic_rewrite_ruleset(rule_head,
                                adorned_prog[rule_head].rules, ret_prog)
    /\ rewrite_queue' = Tail(rewrite_queue)
    /\ UNCHANGED <<mpc, nf_prog, exempt_rules, pending_adornment, adorned_prog,
                   collected>>
    /\ UNCHANGED <<svars, avars, evars>>

\* the stratum is collected; exempt_rules.extend(prog.get_downstream_rules())
StratumDone ==
    /\ mpc = "rewrite"
    /\ rewrite_queue = <<>>
    /\ collected' = Append(collected, ret_prog)
    /\ exempt_rules' = exempt_rules \cup get_downstream_rules(nf_prog)
    /\ mpc' = "done"
    /\ UNCHANGED <<nf_prog, pending_adornment, adorned_prog, rewrite_queue, ret_prog>>
    /\ UNCHANGED <<svars, avars, evars>>

NextMagic ==
    \/ ExemptAggr
    \/ AdornStart
    \/ AdornPending
    \/ MagicRewriteStart
    \/ MagicRewriteEntry
    \/ StratumDone

SpecMagic == InitMagic /\ [][NextMagic]_vars

----------------------------------------------------------------------------
(* stratify followed by magic_sets_rewrite over all the strata             *)

\* a mutant: the entry rule is not exempt to begin with
InitialExemptNone == {}

\* BTreeSet::from([Symbol::new(PROG_ENTRY, ..)])
InitialExempt == {PROG_ENTRY}

\* magic_sets_rewrite is entered with the strata that stratify returned
MagicSetsRewrite ==
    /\ pc = "done"
    /\ mpc = "idle"
    /\ exempt_rules' = InitialExempt
    /\ collected' = <<>>
    /\ mpc' = "next"
    /\ UNCHANGED <<nf_prog, pending_adornment, adorned_prog, rewrite_queue, ret_prog>>
    /\ UNCHANGED <<svars, avars, evars>>

\* for prog in self.0
BeginStratum ==
    /\ pc = "done"
    /\ mpc \in {"next", "done"}
    /\ Len(collected) < Len(ret)
    /\ nf_prog' = ret[Len(collected) + 1]
    /\ pending_adornment' = <<>>
    /\ adorned_prog' = EmptyMap
    /\ rewrite_queue' = <<>>
    /\ ret_prog' = EmptyMap
    /\ mpc' = "exempt"
    /\ UNCHANGED <<exempt_rules, collected>>
    /\ UNCHANGED <<svars, avars, evars>>

\* Ok(StratifiedMagicProgram(collected))
MagicSetsReturn ==
    /\ pc = "done"
    /\ mpc \in {"next", "done"}
    /\ Len(collected) = Len(ret)
    /\ mpc' = "returned"
    /\ UNCHANGED <<nf_prog, exempt_rules, pending_adornment, adorned_prog,
                   rewrite_queue, ret_prog, collected>>
    /\ UNCHANGED <<svars, avars, evars>>

NextPipeline ==
    \/ Next
    \/ MagicSetsRewrite
    \/ BeginStratum
    \/ NextMagic
    \/ MagicSetsReturn

SpecPipeline == Init /\ [][NextPipeline]_vars

----------------------------------------------------------------------------
(* What the program text says, read off the rule bodies.                   *)

RuleRefs(p, k) ==
    IF p[k].algo
    THEN {p[k].rule_args[i].name : i \in {j \in 1..Len(p[k].rule_args) :
                                            p[k].rule_args[j].tag = "InMem"}}
    ELSE {c.key : c \in {RuleSetCites(p[k].rules)[i] :
                            i \in 1..Len(RuleSetCites(p[k].rules))}}

RefGraph(p) == [k \in DOMAIN p |-> RuleRefs(p, k)]

ReachableRules(p) == ReachFrom(RefGraph(p), {PROG_ENTRY}) \cap DOMAIN p

SameScc(p, a, b) ==
    /\ b \in ReachFrom(RefGraph(p), {a})
    /\ a \in ReachFrom(RefGraph(p), {b})

SccMembers(p, a) == {b \in DOMAIN p : SameScc(p, a, b)}

\* the 0-based index of the stratum of ret holding rule n
StratumOf(n) == (CHOOSE i \in 1..Len(ret) : n \in DOMAIN ret[i]) - 1

Placed(n) == \E i \in 1..Len(ret) : n \in DOMAIN ret[i]

\* is some body atom of k citing f negated
CitedNegated(p, k, f) ==
    \E i \in 1..Len(RuleSetCites(p[k].rules)) :
        RuleSetCites(p[k].rules)[i].key = f /\ RuleSetCites(p[k].rules)[i].neg

----------------------------------------------------------------------------
----------------------------------------------------------------------------
\* the poisoned edges u -> v of the dependency graph that close a cycle
\* through a rule reachable from the entry
ForbiddenEdges(p) ==
    LET g == convert_normal_form_program_to_graph(p)
    IN {e \in ReachableRules(p) \X DOMAIN p :
            /\ e[2] \in DOMAIN g[e[1]]
            /\ g[e[1]][e[2]]
            /\ SameScc(p, e[1], e[2])}

Finished == pc \in {"done", "failed"}

NegCycle(present) ==
    RefProgram({<<"p", "q", FALSE>>, <<"q", "p", TRUE>>} \cup
                   {<<PROG_ENTRY, "p", FALSE>> : x \in present \cap {PROG_ENTRY}},
               present \cup {"p", "q"}, {})

(* C2: stratify fails with the unstratifiable error exactly when a rule    *)
(* reachable from the entry has a poisoned edge into its own SCC (a        *)
(* poisoned self-edge included); the error names the callee of such an     *)
(* edge and all members of the SCC; otherwise strata are returned and no   *)
(* error.  '? <- p. p <- q. q <- not p.' is rejected naming {p, q}, while  *)
(* 'p <- q. q <- not p.' alone, with no entry reaching it, is not.         *)
C2_UnstratifiableIffPoisonedCycle ==
    Finished =>
        /\ pc = "failed" <=> ForbiddenEdges(prog) # {}
        /\ pc = "failed" =>
            /\ err.kind = "unstratifiable"
            /\ \E e \in ForbiddenEdges(prog) :
                err.callee = e[2] /\ err.scc = SccMembers(prog, e[1])
            /\ ret = <<>>
        /\ pc = "done" => err = NoError
        /\ prog = NegCycle({PROG_ENTRY}) => pc = "failed" /\ err.scc = {"p", "q"}
        /\ prog = NegCycle({}) => pc = "done" /\ ret = <<>>

\* C2 as stated: 'p <- q. q <- not p.' is rejected naming {p, q}
C2_NegCycleAloneRejected ==
    Finished =>
        /\ pc = "failed" <=> ForbiddenEdges(prog) # {}
        /\ pc = "done" => err = NoError
        /\ prog = NegCycle({}) => pc = "failed" /\ err.scc = {"p", "q"}

\* C2 witness: a poisoned self-edge of a singleton SCC is rejected
C2_Witness ==
    /\ pc = "failed"
    /\ err.scc = {"p"}
    /\ err.callee = "p"

(* C3: the strata partition exactly the rules reachable from the entry:    *)
(* each reachable rule is in exactly one stratum with its rule set         *)
(* unchanged, no unreachable rule is in any stratum, no stratum is empty,  *)
(* and with no reachable rule the result has length 0 and no error.        *)
C3_StrataPartitionReachable ==
    /\ pc = "done" =>
        /\ \A n \in ReachableRules(prog) :
            /\ Cardinality({i \in 1..Len(ret) : n \in DOMAIN ret[i]}) = 1
            /\ ret[StratumOf(n) + 1][n] = prog[n]
        /\ \A i \in 1..Len(ret) :
            /\ DOMAIN ret[i] # {}
            /\ DOMAIN ret[i] \subseteq ReachableRules(prog)
        /\ ReachableRules(prog) = {} => Len(ret) = 0
    /\ pc = "failed" => ReachableRules(prog) # {}

\* C3 witness: two strata returned for a program with an unreachable rule
C3_Witness ==
    /\ pc = "done"
    /\ Len(ret) = 2
    /\ DOMAIN prog \ ReachableRules(prog) # {}

\* a stratum that refers to no rule outside itself
Closed(p) == \A k \in DOMAIN p : RuleRefs(p, k) \subseteq DOMAIN p

C5_AggrEdgePoisoning ==
    /\ pc = "reach" =>
        \A k \in DOMAIN prog : (~prog[k].algo /\ HasAggr(prog[k].rules)) =>
            /\ DOMAIN stratified_graph[k] = RuleRefs(prog, k)
            /\ \A f \in RuleRefs(prog, k) :
                stratified_graph[k][f] =
                    IF f = k /\ IsMeet(prog[k].rules)
                    THEN CitedNegated(prog, k, f) \/ prog[f].algo
                    ELSE TRUE
    /\ Finished =>
        \A k \in ReachableRules(prog) :
            (/\ ~prog[k].algo
             /\ IsMeet(prog[k].rules)
             /\ k \in RuleRefs(prog, k)
             /\ ~CitedNegated(prog, k, k)) =>
                /\ pc = "failed" => ~(err.callee = k /\ err.scc = {k})
                /\ pc = "done" => Cardinality({i \in 1..Len(ret) : k \in DOMAIN ret[i]}) = 1

\* C5 witness: a meet rule set citing itself twice, positively, stratified
C5_Witness ==
    /\ pc = "done"
    /\ "p" \in DOMAIN prog
    /\ IsMeet(prog["p"].rules)
    /\ Len(RuleSetCites(prog["p"].rules)) = 2
    /\ RuleRefs(prog, "p") = {"p"}
    /\ ~CitedNegated(prog, "p", "p")
    /\ Placed("p")

(* C6: for a rule set k without aggregator slot, the edge k -> f is        *)
(* poisoned iff some body atom of k citing f is negated, or f is an        *)
(* algorithm, or f is a meet rule set other than k: the flag is the OR     *)
(* over all citing atoms, whatever their order.                            *)
C6_PlainEdgePoisoning ==
    pc = "reach" =>
        \A k \in DOMAIN prog : (~prog[k].algo /\ ~HasAggr(prog[k].rules)) =>
            /\ DOMAIN stratified_graph[k] = RuleRefs(prog, k)
            /\ \A f \in RuleRefs(prog, k) :
                stratified_graph[k][f] =
                    \/ CitedNegated(prog, k, f)
                    \/ prog[f].algo
                    \/ (f # k /\ ~prog[f].algo /\ IsMeet(prog[f].rules))

\* C6 witness: q cited negated first and positively afterwards
C6_Witness ==
    /\ pc = "reach"
    /\ "p" \in DOMAIN prog
    /\ ~prog["p"].algo
    /\ ~HasAggr(prog["p"].rules)
    /\ RuleSetCites(prog["p"].rules) = <<[key |-> "q", neg |-> TRUE], [key |-> "q", neg |-> FALSE]>>
    /\ ~prog["q"].algo /\ ~HasAggr(prog["q"].rules)
    /\ stratified_graph["p"]["q"]

----------------------------------------------------------------------------
(* What the adorned and the rewritten program are expected to look like.   *)

PopCount(adornment) == Cardinality({i \in 1..Len(adornment) : adornment[i]})

\* the positive rule applications in the bodies of a magic program
CallSites(mp) ==
    UNION {UNION {{r.body[i] : i \in {n \in 1..Len(r.body) : r.body[n].tag = "Rule"}} :
                    r \in SeqSet(mp[k].rules)} :
           k \in {h \in DOMAIN mp : ~mp[h].algo}}

KeysOfKind(mp, kinds) == {k \in DOMAIN mp : k.kind \in kinds}

\* the bindings seen when the i-th atom of a body is reached
RECURSIVE SeenBefore(_, _, _, _)
SeenBefore(body, i, seen, rules_to_rewrite) ==
    IF i <= 1 THEN seen
    ELSE SeenBefore(Tail(body), i - 1,
                    AdornAtom(Head(body), seen, rules_to_rewrite).seen, rules_to_rewrite)

\* the bindings a rule of the adorned rule set k starts with
SeenAtHead(k, rule) == SeqSet(BoundArgs(rule.head, magic_adornment(k)))

AllFree(atoms) == \A a \in atoms : ~has_bound_adornment(a.name)

\* C7: in the adorned program, bit n of the adornment of every call of a rule
\* subject to rewriting is set exactly when argument n was among the bindings
\* seen before the atom was reached, also when a variable occurs twice in the
\* atom.
C7_AdornmentIsSeenBefore ==
    \A k \in DOMAIN adorned_prog :
        ~adorned_prog[k].algo =>
            \A j \in 1..Len(adorned_prog[k].rules) :
                LET orig == nf_prog[k.inner].rules[j]
                    adorned == adorned_prog[k].rules[j]
                IN \A i \in 1..Len(adorned.body) :
                    LET a == adorned.body[i]
                        before == SeenBefore(orig.body, i, SeenAtHead(k, orig),
                                     rules_to_rewrite_of(nf_prog, exempt_rules))
                    IN (a.tag = "Rule" /\ a.name.kind = "Magic") =>
                        \A n \in 1..Len(a.args) :
                            a.name.adornment[n] <=> (a.args[n] \in before)

\* C8: every rule of an Input rule set of the rewritten program has as many
\* head variables as its adornment has set bits, and the head is the list of
\* the arguments at the set positions of a call site of that adorned rule.
C8_InputHeadIsBoundArgs ==
    \A k \in KeysOfKind(ret_prog, {"Input"}) :
        \A j \in 1..Len(ret_prog[k].rules) :
            LET head == ret_prog[k].rules[j].head
            IN /\ Len(head) = PopCount(k.adornment)
               /\ \E a \in CallSites(adorned_prog) :
                    /\ a.name = Magic(k.inner, k.adornment)
                    /\ head = BoundArgs(a.args, k.adornment)

\* an input rule whose head leaves out a free argument of its call site
C8_Witness ==
    /\ mpc = "done"
    /\ \E k \in KeysOfKind(ret_prog, {"Input"}) :
        /\ PopCount(k.adornment) = 1
        /\ \E a \in CallSites(adorned_prog) :
            /\ a.name = Magic(k.inner, k.adornment)
            /\ a.args = <<"X", "Y">>
            /\ ret_prog[k].rules[1].head = <<"X">>

\* C9: once a stratum is rewritten, every rule set of the adorned program is
\* in the rewritten program under the same name with as many rules, each with
\* the head and the aggregators of the adorned rule at the same position, and
\* every other rule set of the rewritten program is named Sup or Input.
C9_RewritePreservesHeads ==
    mpc = "done" =>
        /\ \A k \in DOMAIN adorned_prog :
            /\ k \in DOMAIN ret_prog
            /\ k.kind \in {"Muggle", "Magic"}
            /\ IF adorned_prog[k].algo THEN ret_prog[k] = adorned_prog[k]
               ELSE /\ ~ret_prog[k].algo
                    /\ Len(ret_prog[k].rules) = Len(adorned_prog[k].rules)
                    /\ \A j \in 1..Len(adorned_prog[k].rules) :
                        /\ ret_prog[k].rules[j].head = adorned_prog[k].rules[j].head
                        /\ ret_prog[k].rules[j].aggr = adorned_prog[k].rules[j].aggr
        /\ \A k \in DOMAIN ret_prog \ DOMAIN adorned_prog : k.kind \in {"Sup", "Input"}

\* a rewritten stratum with an aggregating rule set, a rule set of two rules
\* whose body changed, and supplementary rules
C9_Witness ==
    /\ mpc = "done"
    /\ \E k \in DOMAIN adorned_prog :
        /\ ~adorned_prog[k].algo
        /\ \E j \in 1..Len(adorned_prog[k].rules) :
            adorned_prog[k].rules[j].aggr = MeetAggr
    /\ \E k \in DOMAIN adorned_prog :
        /\ ~adorned_prog[k].algo
        /\ Len(adorned_prog[k].rules) = 2
        /\ ret_prog[k].rules[1].body # adorned_prog[k].rules[1].body
    /\ KeysOfKind(ret_prog, {"Sup"}) # {}

\* C10 as stated: when no call in the entry rule has a bound
\* argument, the rewritten stratum has no Sup and no Input rule.
C10_EntryAllFreeNoSupInput ==
    (/\ mpc = "done"
     /\ PROG_ENTRY \in DOMAIN nf_prog
     /\ AllFree(CallSites([k \in {Muggle(PROG_ENTRY)} |-> adorned_prog[k]])))
        => KeysOfKind(ret_prog, {"Sup", "Input"}) = {}

\* C10: when no call in any rule of the adorned stratum has a bound argument,
\* the rewritten stratum has no Sup and no Input rule.
C10_AllFreeNoSupInput ==
    (mpc = "done" /\ AllFree(CallSites(adorned_prog)))
        => KeysOfKind(ret_prog, {"Sup", "Input"}) = {}

\* a rewritten stratum whose rules call rewritten rules, all with free arguments
C10_Witness ==
    /\ mpc = "done"
    /\ PROG_ENTRY \in DOMAIN nf_prog
    /\ AllFree(CallSites(adorned_prog))
    /\ \E a \in CallSites(adorned_prog) : a.name.kind = "Magic"
    /\ KeysOfKind(adorned_prog, {"Magic"}) # {}

\* the places <<k, j, i>> of the adorned program where a rule is called
\* with at least one bound argument
BoundCalls(mp) ==
    {x \in UNION {UNION {{<<k, j, i>> : i \in 1..Len(mp[k].rules[j].body)} :
                    j \in 1..Len(mp[k].rules)} : k \in {h \in DOMAIN mp : ~mp[h].algo}} :
        LET a == mp[x[1]].rules[x[2]].body[x[3]]
        IN a.tag = "Rule" /\ has_bound_adornment(a.name)}

\* the number of supplementary rules of rule j of the adorned rule set k
SupCount(mp, k, j) ==
    (IF has_bound_adornment(k) THEN 1 ELSE 0)
        + Cardinality({x \in BoundCalls(mp) : x[1] = k /\ x[2] = j})

\* C11: once a stratum is rewritten, the Sup symbols of the rewritten program
\* are exactly those with the name and adornment of an adorned rule set, the
\* index of one of its rules and a sup_idx in 0..m-1, m being 1 for a head
\* with a bound position plus the number of calls with a bound argument in
\* that rule; each Sup symbol names one rule, and every Input symbol names
\* as many rules as there are calls of its adorned rule.
C11_SupIndicesDense ==
    mpc = "done" =>
        /\ KeysOfKind(ret_prog, {"Sup"}) =
            UNION {UNION {{Sup(k.inner, magic_adornment(k), j - 1, n) :
                            n \in 0..(SupCount(adorned_prog, k, j) - 1)} :
                        j \in 1..Len(adorned_prog[k].rules)} :
                   k \in {h \in DOMAIN adorned_prog : ~adorned_prog[h].algo}}
        /\ \A k \in KeysOfKind(ret_prog, {"Sup"}) : Len(ret_prog[k].rules) = 1
        /\ \A k \in KeysOfKind(ret_prog, {"Input"}) :
            Len(ret_prog[k].rules) =
                Cardinality({x \in BoundCalls(adorned_prog) :
                    adorned_prog[x[1]].rules[x[2]].body[x[3]].name
                        = Magic(k.inner, k.adornment)})
        /\ \A x \in BoundCalls(adorned_prog) :
            LET a == adorned_prog[x[1]].rules[x[2]].body[x[3]]
            IN Input(a.name.inner, a.name.adornment) \in DOMAIN ret_prog

\* a rewritten rule with two calls with a bound argument, and an adorned
\* rule set with a bound head position
C11_Witness ==
    /\ mpc = "done"
    /\ \E k \in DOMAIN adorned_prog :
        /\ ~adorned_prog[k].algo
        /\ \E j \in 1..Len(adorned_prog[k].rules) :
            Cardinality({x \in BoundCalls(adorned_prog) : x[1] = k /\ x[2] = j}) = 2
    /\ \E k \in DOMAIN adorned_prog : has_bound_adornment(k)

\* the symbols a magic program uses: its keys and the names its rules call
UsedSymbols(mp) ==
    DOMAIN mp \cup
    UNION {UNION {{r.body[i].name :
                    i \in {n \in 1..Len(r.body) : r.body[n].tag \in {"Rule", "NegatedRule"}}} :
                  r \in SeqSet(mp[k].rules)} : k \in DOMAIN mp}

EntryNeverMagic(mp) ==
    \A k \in UsedSymbols(mp) : k.inner = PROG_ENTRY => k.kind \notin {"Magic", "Input"}

\* C12: while magic_sets_rewrite runs the exempt set contains '?' and never
\* loses a member, and neither the adorned program nor the program being
\* rewritten nor a collected stratum has or calls a Magic or an Input rule
\* set of the entry rule.
C12_EntryAlwaysExempt ==
    /\ [](mpc # "idle" =>
            /\ PROG_ENTRY \in exempt_rules
            /\ EntryNeverMagic(adorned_prog)
            /\ EntryNeverMagic(ret_prog)
            /\ \A i \in 1..Len(collected) : EntryNeverMagic(collected[i]))
    /\ [][exempt_rules \subseteq exempt_rules']_vars

\* all strata are rewritten, the entry rule is called from its own stratum,
\* and the exempt set has grown
C12_Witness ==
    /\ mpc = "returned"
    /\ Len(collected) >= 2
    /\ \E k \in DOMAIN collected[1] :
        /\ k # Muggle(PROG_ENTRY)
        /\ \E r \in SeqSet(collected[1][k].rules) : \E i \in 1..Len(r.body) :
            r.body[i] = Atom("Rule", Muggle(PROG_ENTRY), HeadVars)
    /\ exempt_rules \ {PROG_ENTRY} # {}

----------------------------------------------------------------------------
(* Weighted graphs handed to the algorithms: entry i is the ordered list   *)
(* of <<neighbour, weight>> pairs of node i.                               *)

MaxNodes == 3

MaxEdges == 3

Weights == {0, 1, 2, 10}

INFINITY == 1000

NodesOf(n) == 0..(n - 1)

\* the pairs of the edge list es that leave node i, in the order of es
RECURSIVE AdjOf(_, _)
AdjOf(es, i) ==
    IF es = <<>> THEN <<>>
    ELSE (IF Head(es)[1] = i THEN <<<<Head(es)[2], Head(es)[3]>>>> ELSE <<>>)
            \o AdjOf(Tail(es), i)

GraphOf(n, es) == [i \in NodesOf(n) |-> AdjOf(es, i)]

EdgeLists(n) ==
    UNION {[1..m -> NodesOf(n) \X NodesOf(n) \X Weights] : m \in 0..MaxEdges}

\* f64 addition on the costs the algorithms compute
Plus(a, b) == IF a = INFINITY \/ b = INFINITY THEN INFINITY ELSE a + b

MinOf(S) == CHOOSE x \in S : \A y \in S : x <= y

----------------------------------------------------------------------------
(* PriorityQueue<node, Reverse(cost)>: a map from the queued items to      *)
(* their costs; the item popped is one of the least cost.                  *)

PqPush(pq, item, cost) == MapPut(pq, item, cost)

\* push_increase: a queued item only ever gets a smaller cost
PqPushIncrease(pq, item, cost) ==
    IF item \in DOMAIN pq /\ pq[item] <= cost THEN pq ELSE MapPut(pq, item, cost)

PqRemove(pq, item) == [x \in DOMAIN pq \ {item} |-> pq[x]]

PqFront(pq) == {x \in DOMAIN pq : \A y \in DOMAIN pq : pq[x] <= pq[y]}

----------------------------------------------------------------------------
(* all_pairs_shortest_path.rs: dijkstra_cost_only                          *)

\* a mutant: a distance once found is never improved
RelaxImprovesFirstOnly(nxt_cost, old) == old = INFINITY /\ nxt_cost < old

\* if nxt_cost < distance[*nxt_node]
RelaxImproves(nxt_cost, old) == nxt_cost < old

\* let mut distance = ..; let mut pq = ..; distance[start] = 0.; pq.push(start, 0.)
\* (back_pointers is written and never read)
DijkstraCostOnlyStart(edges, start) ==
    [distance |-> [v \in DOMAIN edges |-> IF v = start THEN 0 ELSE INFINITY],
     pq |-> PqPush(EmptyMap, start, 0)]

\* for (nxt_node, path_weight) in &edges[node]
RECURSIVE DijkstraCostOnlyRelax(_, _, _)
DijkstraCostOnlyRelax(adj, cost, st) ==
    IF adj = <<>> THEN st
    ELSE LET nxt_node == Head(adj)[1]
             nxt_cost == Plus(cost, Head(adj)[2])
         IN DijkstraCostOnlyRelax(Tail(adj), cost,
                IF RelaxImproves(nxt_cost, st.distance[nxt_node])
                THEN [distance |-> [st.distance EXCEPT ![nxt_node] = nxt_cost],
                      pq |-> PqPushIncrease(st.pq, nxt_node, nxt_cost)]
                ELSE st)

\* one turn of the while loop with node popped: the new locals, and whether
\* the turn got as far as poison.check()
DijkstraCostOnlyTurn(edges, st, node) ==
    LET cost == st.pq[node]
        popped == [st EXCEPT !.pq = PqRemove(st.pq, node)]
    IN IF cost > st.distance[node]
       THEN [st |-> popped, polled |-> FALSE]
       ELSE [st |-> DijkstraCostOnlyRelax(edges[node], cost, popped), polled |-> TRUE]

\* turns of the running algorithm's outer loop begun with the token tripped
TurnsAfterTrip == IF poison THEN al.turns_after_trip + 1 ELSE 0

\* the cancellation token is tripped by whoever holds a clone of it
Trip ==
    /\ apc \notin {"idle", "done"}
    /\ ~poison
    /\ poison' = TRUE
    /\ UNCHANGED <<apc, ain, al, out, ares>>
    /\ UNCHANGED <<svars, mvars, evars>>

InitDijkstra ==
    /\ StratifyIdle
    /\ EnvIdle
    /\ MagicIdle
    /\ \E n \in 1..MaxNodes : \E es \in EdgeLists(n), start \in NodesOf(n) :
        /\ ain = [algo |-> "dijkstra_cost_only", edges |-> GraphOf(n, es), start |-> start]
        /\ al = [st |-> DijkstraCostOnlyStart(GraphOf(n, es), start), turns_after_trip |-> 0]
    /\ apc = "dijkstra"
    /\ out = {}
    /\ poison = FALSE
    /\ ares = "none"

\* while let Some((node, cost)) = pq.pop() { .. poison.check()?; }
DijkstraCostOnlyIter ==
    /\ apc = "dijkstra"
    /\ \E node \in PqFront(al.st.pq) :
        LET t == DijkstraCostOnlyTurn(ain.edges, al.st, node)
        IN /\ al' = [st |-> t.st, turns_after_trip |-> TurnsAfterTrip]
           /\ IF t.polled /\ poison
              THEN apc' = "done" /\ ares' = "Cancelled"
              ELSE UNCHANGED <<apc, ares>>
    /\ UNCHANGED <<ain, out, poison>>
    /\ UNCHANGED <<svars, mvars, evars>>

\* Ok(distance)
DijkstraCostOnlyReturn ==
    /\ apc = "dijkstra"
    /\ DOMAIN al.st.pq = {}
    /\ apc' = "done"
    /\ ares' = "Ok"
    /\ UNCHANGED <<ain, al, out, poison>>
    /\ UNCHANGED <<svars, mvars, evars>>

NextDijkstra ==
    \/ DijkstraCostOnlyIter
    \/ DijkstraCostOnlyReturn
    \/ Trip

SpecDijkstra == InitDijkstra /\ [][NextDijkstra]_vars

----------------------------------------------------------------------------
(* What the text says of dijkstra_cost_only, stated without the queue.     *)

\* the pairs <<to, weight>> over all edges of g that enter v from u
EdgeWeights(g, u, v) ==
    {g[u][i][2] : i \in {j \in DOMAIN g[u] : g[u][j][1] = v}}

\* least total weight of a path of at most h edges from s, per node
RECURSIVE PathCost(_, _, _)
PathCost(g, s, h) ==
    IF h = 0 THEN [v \in DOMAIN g |-> IF v = s THEN 0 ELSE INFINITY]
    ELSE LET d == PathCost(g, s, h - 1)
         IN [v \in DOMAIN g |->
                MinOf({d[v]} \cup {Plus(d[u], w) : <<u, w>> \in
                    {<<u, w>> \in (DOMAIN g) \X Weights : w \in EdgeWeights(g, u, v)}})]

MinPathCost(g, s) == PathCost(g, s, Cardinality(DOMAIN g))

RECURSIVE ReachableFrom(_, _)
ReachableFrom(g, seen) ==
    LET more == seen \cup {g[u][i][1] : <<u, i>> \in
                    {<<u, i>> \in seen \X (1..MaxEdges) : i \in DOMAIN g[u]}}
    IN IF more = seen THEN seen ELSE ReachableFrom(g, more)

SpecExampleGraph == GraphOf(3, <<<<0, 1, 1>>, <<1, 2, 2>>, <<0, 2, 10>>>>)

DijkstraReturned == apc = "done" /\ ares = "Ok" /\ ain.algo = "dijkstra_cost_only"

\* C18: a dijkstra_cost_only call that returns gives distance 0 to the start,
\* the least total path weight to every node reachable from it, and infinity
\* exactly to the nodes that are not reachable; on 0->1 (1), 1->2 (2),
\* 0->2 (10) from node 0 the result is [0, 1, 3].
C18_DijkstraCostOnlyIsShortest ==
    DijkstraReturned =>
        LET d == al.st.distance
            reach == ReachableFrom(ain.edges, {ain.start})
        IN /\ d[ain.start] = 0
           /\ d = MinPathCost(ain.edges, ain.start)
           /\ \A v \in DOMAIN d : d[v] = INFINITY <=> v \notin reach
           /\ (ain.edges = SpecExampleGraph /\ ain.start = 0)
                => d = [v \in 0..2 |-> <<0, 1, 3>>[v + 1]]

\* a returned call where a later, cheaper route replaced a first distance
\* and another node stayed out of reach
C18_Witness ==
    /\ DijkstraReturned
    /\ \E v \in DOMAIN ain.edges \ {ain.start} :
        /\ al.st.distance[v] # INFINITY
        /\ \E i \in DOMAIN ain.edges[ain.start] :
            /\ ain.edges[ain.start][i][1] = v
            /\ ain.edges[ain.start][i][2] > al.st.distance[v]
    /\ \E v \in DOMAIN ain.edges : al.st.distance[v] = INFINITY

----------------------------------------------------------------------------
(* kruskal.rs                                                              *)

\* UnionFind::new
UnionFindNew(n) == [ids |-> [i \in NodesOf(n) |-> i], szs |-> [i \in NodesOf(n) |-> 1]]

\* while root != self.ids[root] { root = self.ids[root]; }
RECURSIVE UfRoot(_, _)
UfRoot(ids, p) == IF ids[p] = p THEN p ELSE UfRoot(ids, ids[p])

\* while p != root { let next = self.ids[p]; self.ids[p] = root; p = next; }
RECURSIVE UfCompress(_, _, _)
UfCompress(ids, p, root) ==
    IF p = root THEN ids ELSE UfCompress([ids EXCEPT ![p] = root], ids[p], root)

\* UnionFind::find: the root of p, and the structure with p's path compressed
UfFind(uf, p) ==
    LET root == UfRoot(uf.ids, p)
    IN [root |-> root, uf |-> [uf EXCEPT !.ids = UfCompress(uf.ids, p, root)]]

\* UnionFind::connected
UfConnected(uf, p, q) ==
    LET f1 == UfFind(uf, p)
        f2 == UfFind(f1.uf, q)
    IN [connected |-> f1.root = f2.root, uf |-> f2.uf]

\* UnionFind::union
UfUnion(uf, p, q) ==
    LET f1 == UfFind(uf, p)
        f2 == UfFind(f1.uf, q)
        root1 == f1.root
        root2 == f2.root
        u == f2.uf
    IN IF root1 = root2 THEN u
       ELSE IF u.szs[root1] < u.szs[root2]
            THEN [ids |-> [u.ids EXCEPT ![root1] = root2],
                  szs |-> [u.szs EXCEPT ![root2] = u.szs[root2] + u.szs[root1]]]
            ELSE [ids |-> [u.ids EXCEPT ![root2] = root1],
                  szs |-> [u.szs EXCEPT ![root1] = u.szs[root1] + u.szs[root2]]]

\* for (to, cost) in tos { pq.push((from, *to), Reverse(cost)); }
RECURSIVE KruskalPushAll(_, _, _)
KruskalPushAll(pq, from, tos) ==
    IF tos = <<>> THEN pq
    ELSE KruskalPushAll(PqPush(pq, <<from, Head(tos)[1]>>, Head(tos)[2]), from, Tail(tos))

\* one turn of the while loop with the edge popped: the new locals, whether
\* the loop was left by break, and whether the turn reached poison.check()
KruskalTurn(n, st, item) ==
    LET from == item[1]
        to == item[2]
        cost == st.pq[item]
        pq == PqRemove(st.pq, item)
        c == UfConnected(st.uf, from, to)
    IN IF c.connected
       THEN [st |-> [st EXCEPT !.pq = pq, !.uf = c.uf], broke |-> FALSE, polled |-> FALSE]
       ELSE LET uf == UfUnion(c.uf, from, to)
                nst == [st EXCEPT !.pq = pq, !.uf = uf,
                                  !.mst = Append(st.mst, <<from, to, cost>>)]
            IN IF uf.szs[0] = n
               THEN [st |-> nst, broke |-> TRUE, polled |-> FALSE]
               ELSE [st |-> nst, broke |-> FALSE, polled |-> TRUE]

\* MinimumSpanningForestKruskal::run after kruskal returned: one tuple per edge
KruskalTuples(mst) == {mst[i] : i \in DOMAIN mst}

InitKruskal ==
    /\ StratifyIdle
    /\ EnvIdle
    /\ MagicIdle
    /\ \E n \in 1..MaxNodes : \E es \in EdgeLists(n) :
        /\ ain = [algo |-> "kruskal", edges |-> GraphOf(n, es)]
        /\ al = [st |-> [pq |-> EmptyMap, uf |-> UnionFindNew(n), mst |-> <<>>, from |-> 0],
                 turns_after_trip |-> 0]
    /\ apc = "kruskal_fill"
    /\ out = {}
    /\ poison = FALSE
    /\ ares = "none"

\* for (from, tos) in edges.iter().enumerate() { ..; poison.check()?; }
KruskalFill ==
    /\ apc = "kruskal_fill"
    /\ LET from == al.st.from
           n == Cardinality(DOMAIN ain.edges)
       IN /\ al' = [st |-> [al.st EXCEPT !.pq = KruskalPushAll(al.st.pq, from, ain.edges[from]),
                                        !.from = from + 1],
                    turns_after_trip |-> TurnsAfterTrip]
          /\ IF poison
             THEN apc' = "done" /\ ares' = "Cancelled"
             ELSE /\ apc' = IF from + 1 = n THEN "kruskal_pop" ELSE apc
                  /\ UNCHANGED ares
    /\ UNCHANGED <<ain, out, poison>>
    /\ UNCHANGED <<svars, mvars, evars>>

\* while let Some(((from, to), cost)) = pq.pop() { .. }
KruskalPop ==
    /\ apc = "kruskal_pop"
    /\ \E item \in PqFront(al.st.pq) :
        LET t == KruskalTurn(Cardinality(DOMAIN ain.edges), al.st, item)
        IN /\ al' = [st |-> t.st, turns_after_trip |-> TurnsAfterTrip]
           /\ IF t.polled /\ poison
              THEN apc' = "done" /\ ares' = "Cancelled" /\ UNCHANGED out
              ELSE IF t.broke
                   THEN apc' = "done" /\ ares' = "Ok" /\ out' = KruskalTuples(t.st.mst)
                   ELSE UNCHANGED <<apc, ares, out>>
    /\ UNCHANGED <<ain, poison>>
    /\ UNCHANGED <<svars, mvars, evars>>

\* Ok(mst), then run puts the tuples
KruskalReturn ==
    /\ apc = "kruskal_pop"
    /\ DOMAIN al.st.pq = {}
    /\ apc' = "done"
    /\ ares' = "Ok"
    /\ out' = KruskalTuples(al.st.mst)
    /\ UNCHANGED <<ain, al, poison>>
    /\ UNCHANGED <<svars, mvars, evars>>

NextKruskal ==
    \/ KruskalFill
    \/ KruskalPop
    \/ KruskalReturn
    \/ Trip

SpecKruskal == InitKruskal /\ [][NextKruskal]_vars

----------------------------------------------------------------------------
(* all_pairs_shortest_path.rs: ClosenessCentrality::run                    *)

CentralityWeights == {1, 2}

CentralityEdgeLists(n) ==
    UNION {[1..m -> NodesOf(n) \X NodesOf(n) \X CentralityWeights] : m \in 0..MaxEdges}

RECURSIVE SumOver(_, _)
SumOver(f, S) ==
    IF S = {} THEN 0
    ELSE LET x == CHOOSE y \in S : TRUE IN f[x] + SumOver(f, S \ {x})

\* nc * nc / total_dist / (n - 1), kept as the three numbers of the quotient
ClosenessValue(distances, n) ==
    LET finite == {v \in DOMAIN distances : distances[v] # INFINITY}
    IN [num |-> Cardinality(finite) * Cardinality(finite),
        total_dist |-> SumOver(distances, finite),
        n_1 |-> n - 1]

\* a mutant: the collected vector is in the order the workers finished
CollectByCompletion(workers, finished) ==
    [idx \in DOMAIN workers |-> workers[finished[idx + 1]].value]

\* .collect::<Result<_>>() of an indexed parallel iterator keeps index order
CollectIndexed(workers, finished) ==
    [idx \in DOMAIN workers |-> workers[idx].value]

NoValue == [num |-> 0, total_dist |-> 0, n_1 |-> 0]

InitCloseness ==
    /\ StratifyIdle
    /\ EnvIdle
    /\ MagicIdle
    /\ \E n \in 1..MaxNodes : \E es \in CentralityEdgeLists(n), tripped \in BOOLEAN :
        /\ ain = [algo |-> "closeness", edges |-> GraphOf(n, es), tripped |-> tripped]
        /\ poison = tripped
        /\ al = [workers |-> [start \in NodesOf(n) |->
                                [status |-> "running",
                                 st |-> DijkstraCostOnlyStart(GraphOf(n, es), start),
                                 value |-> NoValue]],
                 finished |-> <<>>,
                 res |-> <<>>,
                 idx |-> 0,
                 turns_after_trip |-> 0]
    /\ apc = "closeness_map"
    /\ out = {}
    /\ ares = "none"

\* one turn of dijkstra_cost_only in the worker of one start node; the worker
\* ends with Err at a failed poll and with Ok(nc * nc / ..) when its queue
\* is empty
ClosenessWorker ==
    /\ apc = "closeness_map"
    /\ \E start \in DOMAIN al.workers :
        /\ al.workers[start].status = "running"
        /\ \E node \in PqFront(al.workers[start].st.pq) :
            LET t == DijkstraCostOnlyTurn(ain.edges, al.workers[start].st, node)
                n == Cardinality(DOMAIN ain.edges)
                w == IF t.polled /\ poison
                     THEN [status |-> "err", st |-> t.st, value |-> NoValue]
                     ELSE IF DOMAIN t.st.pq = {}
                          THEN [status |-> "ok", st |-> t.st,
                                value |-> ClosenessValue(t.st.distance, n)]
                          ELSE [status |-> "running", st |-> t.st, value |-> NoValue]
            IN al' = [al EXCEPT !.workers[start] = w,
                                !.finished = IF w.status = "running" THEN @
                                             ELSE Append(@, start)]
    /\ UNCHANGED <<apc, ain, out, poison, ares>>
    /\ UNCHANGED <<svars, mvars, evars>>

\* .collect::<Result<_>>()?: an Err of any worker is returned, the others
\* being abandoned; otherwise the vector of the values
ClosenessCollect ==
    /\ apc = "closeness_map"
    /\ IF \E start \in DOMAIN al.workers : al.workers[start].status = "err"
       THEN apc' = "done" /\ ares' = "Cancelled" /\ UNCHANGED al
       ELSE /\ \A start \in DOMAIN al.workers : al.workers[start].status = "ok"
            /\ al' = [al EXCEPT !.res = CollectIndexed(al.workers, al.finished)]
            /\ apc' = "closeness_put"
            /\ UNCHANGED ares
    /\ UNCHANGED <<ain, out, poison>>
    /\ UNCHANGED <<svars, mvars, evars>>

\* for (idx, centrality) in res.into_iter().enumerate() { out.put(..); poison.check()?; }
ClosenessPut ==
    /\ apc = "closeness_put"
    /\ out' = out \cup {<<al.idx, al.res[al.idx]>>}
    /\ al' = [al EXCEPT !.idx = @ + 1, !.turns_after_trip = TurnsAfterTrip]
    /\ IF poison
       THEN apc' = "done" /\ ares' = "Cancelled"
       ELSE IF al.idx + 1 = Cardinality(DOMAIN ain.edges)
            THEN apc' = "done" /\ ares' = "Ok"
            ELSE UNCHANGED <<apc, ares>>
    /\ UNCHANGED <<ain, poison>>
    /\ UNCHANGED <<svars, mvars, evars>>

NextCloseness ==
    \/ ClosenessWorker
    \/ ClosenessCollect
    \/ ClosenessPut
    \/ Trip

SpecCloseness == InitCloseness /\ [][NextCloseness]_vars

----------------------------------------------------------------------------
(* bfs.rs: Bfs::run. Relations are iterated in the order of their keys.    *)

RECURSIVE SortedInts(_)
SortedInts(S) ==
    IF S = {} THEN <<>>
    ELSE LET m == MinOf(S) IN <<m>> \o SortedInts(S \ {m})

\* edges.prefix_iter(&candidate): the targets of candidate's edge tuples
BfsEdgesOf(edges, candidate) == SortedInts({e[2] : e \in {x \in edges : x[1] = candidate}})

\* the edge loop of one candidate, from the edge tuple tos[1] on
RECURSIVE BfsEdgeLoop(_, _, _, _, _)
BfsEdgeLoop(in, st, starting_node, candidate, tos) ==
    IF tos = <<>> THEN st
    ELSE LET to_node == Head(tos)
         IN IF to_node \in st.visited
            THEN BfsEdgeLoop(in, st, starting_node, candidate, Tail(tos))
            ELSE LET seen == [st EXCEPT !.visited = @ \cup {to_node},
                                       !.backtrace = MapPut(@, to_node, candidate)]
                 IN IF ~in.skip_query_nodes /\ to_node \notin in.nodes
                    THEN [seen EXCEPT !.status = "NodeNotFound", !.missing = candidate]
                    ELSE LET hit == to_node \in in.condition
                             fnd == IF hit
                                    THEN [seen EXCEPT !.found = Append(@, <<starting_node, to_node>>)]
                                    ELSE seen
                         IN IF hit /\ Len(fnd.found) >= in.limit
                            THEN [fnd EXCEPT !.status = "break"]
                            ELSE LET pushed == [fnd EXCEPT !.queue = <<to_node>> \o @,
                                                          !.polls = @ + 1]
                                 IN IF in.tripped
                                    THEN [pushed EXCEPT !.status = "Cancelled"]
                                    ELSE BfsEdgeLoop(in, pushed, starting_node,
                                                     candidate, Tail(tos))

\* while let Some(candidate) = queue.pop_back() { .. }
RECURSIVE BfsWhile(_, _, _)
BfsWhile(in, st, starting_node) ==
    IF st.queue = <<>> \/ st.status # "go" THEN st
    ELSE LET candidate == st.queue[Len(st.queue)]
             popped == [st EXCEPT !.queue = SubSeq(@, 1, Len(@) - 1)]
         IN BfsWhile(in, BfsEdgeLoop(in, popped, starting_node, candidate,
                                     BfsEdgesOf(in.edges, candidate)),
                     starting_node)

\* one turn of the 'outer loop
BfsOuterTurn(in, st, starting_node) ==
    IF starting_node \in st.visited THEN st
    ELSE BfsWhile(in, [st EXCEPT !.visited = @ \cup {starting_node},
                                 !.queue = <<starting_node>>],
                  starting_node)

\* the route from starting to ending along backtrace, reversed at the end
RECURSIVE BfsRouteBack(_, _, _)
BfsRouteBack(backtrace, starting, current) ==
    IF current = starting THEN <<starting>>
    ELSE <<current>> \o BfsRouteBack(backtrace, starting, backtrace[current])

Reverse(q) == [i \in 1..Len(q) |-> q[Len(q) + 1 - i]]

\* Tuple(vec![starting, ending, DataValue::List(route)])
BfsTuple(backtrace, starting, ending) ==
    <<starting, ending, Reverse(BfsRouteBack(backtrace, starting, ending))>>

BfsLimits == {1, 2}

EdgeSets(n) == {E \in SUBSET (NodesOf(n) \X NodesOf(n)) : Cardinality(E) <= MaxEdges}

InitBfs ==
    /\ StratifyIdle
    /\ EnvIdle
    /\ MagicIdle
    /\ \E n \in 1..MaxNodes :
       \E edges \in EdgeSets(n), starting \in SUBSET NodesOf(n),
          condition \in SUBSET NodesOf(n), nodes \in SUBSET NodesOf(n),
          limit \in BfsLimits, skip \in BOOLEAN :
        /\ skip => nodes = NodesOf(n)
        /\ ain = [algo |-> "bfs", edges |-> edges, nodes |-> nodes,
                  starting_nodes |-> SortedInts(starting), limit |-> limit,
                  condition |-> condition, skip_query_nodes |-> skip]
        /\ apc = IF starting = {} THEN "bfs_put" ELSE "bfs"
    /\ poison = FALSE
    /\ al = [st |-> [visited |-> {}, backtrace |-> EmptyMap, found |-> <<>>,
                     queue |-> <<>>, status |-> "go", missing |-> 0, polls |-> 0],
             i |-> 1,
             turns_after_trip |-> 0]
    /\ out = {}
    /\ ares = "none"

\* 'outer: for node_tuple in starting_nodes.iter(tx, stores)? { .. }
BfsOuter ==
    /\ apc = "bfs"
    /\ LET in == [ain EXCEPT !.algo = "bfs"] @@ [tripped |-> poison]
           st == BfsOuterTurn(in, al.st, ain.starting_nodes[al.i])
       IN /\ al' = [st |-> st, i |-> al.i + 1, turns_after_trip |-> TurnsAfterTrip]
          /\ IF st.status \in {"Cancelled", "NodeNotFound"}
             THEN apc' = "done" /\ ares' = st.status
             ELSE /\ apc' = IF st.status = "break" \/ al.i = Len(ain.starting_nodes)
                            THEN "bfs_put" ELSE apc
                  /\ UNCHANGED ares
    /\ UNCHANGED <<ain, out, poison>>
    /\ UNCHANGED <<svars, mvars, evars>>

\* for (starting, ending) in found { .. out.put(tuple, 0); } Ok(())
BfsPut ==
    /\ apc = "bfs_put"
    /\ out' = {BfsTuple(al.st.backtrace, al.st.found[k][1], al.st.found[k][2]) :
                    k \in DOMAIN al.st.found}
    /\ apc' = "done"
    /\ ares' = "Ok"
    /\ UNCHANGED <<ain, al, poison>>
    /\ UNCHANGED <<svars, mvars, evars>>

NextBfs ==
    \/ BfsOuter
    \/ BfsPut
    \/ Trip

SpecBfs == InitBfs /\ [][NextBfs]_vars

----------------------------------------------------------------------------
(* Dijkstra from one node to one goal, avoiding the forbidden edges and    *)
(* nodes: the least (cost, node) is popped first, a strictly smaller cost  *)
(* replaces distance and back-pointer.                                     *)

\* the item popped from a heap keyed by (cost, node)
PqFirst(pq) == MinOf(PqFront(pq))

RECURSIVE DijkstraRelax(_, _, _, _, _, _)
DijkstraRelax(adj, node, cost, forbidden_edges, forbidden_nodes, st) ==
    IF adj = <<>> THEN st
    ELSE LET nxt_node == Head(adj)[1]
             nxt_cost == Plus(cost, Head(adj)[2])
         IN DijkstraRelax(Tail(adj), node, cost, forbidden_edges, forbidden_nodes,
                IF /\ nxt_node \notin forbidden_nodes
                   /\ <<node, nxt_node>> \notin forbidden_edges
                   /\ nxt_cost < st.distance[nxt_node]
                THEN [distance |-> [st.distance EXCEPT ![nxt_node] = nxt_cost],
                      back_pointers |-> [st.back_pointers EXCEPT ![nxt_node] = node],
                      pq |-> PqPushIncrease(st.pq, nxt_node, nxt_cost)]
                ELSE st)

RECURSIVE DijkstraLoop(_, _, _, _)
DijkstraLoop(edges, forbidden_edges, forbidden_nodes, st) ==
    IF DOMAIN st.pq = {} THEN st
    ELSE LET node == PqFirst(st.pq)
             popped == [st EXCEPT !.pq = PqRemove(st.pq, node)]
         IN DijkstraLoop(edges, forbidden_edges, forbidden_nodes,
                DijkstraRelax(edges[node], node, st.pq[node],
                              forbidden_edges, forbidden_nodes, popped))

RECURSIVE PathBack(_, _, _)
PathBack(back_pointers, start, current) ==
    IF current = start THEN <<start>>
    ELSE Append(PathBack(back_pointers, start, back_pointers[current]), current)

\* dijkstra(edges, start, &Some(goal), &forbidden_edges, &forbidden_nodes)
\*   .into_iter().next(): <<>> for None, <<<<cost, path>>>> for Some
dijkstra(edges, start, goal, forbidden_edges, forbidden_nodes) ==
    LET st == DijkstraLoop(edges, forbidden_edges, forbidden_nodes,
                [distance |-> [v \in DOMAIN edges |-> IF v = start THEN 0 ELSE INFINITY],
                 back_pointers |-> [v \in DOMAIN edges |-> v],
                 pq |-> PqPush(EmptyMap, start, 0)])
    IN IF st.distance[goal] = INFINITY THEN <<>>
       ELSE <<<<st.distance[goal], PathBack(st.back_pointers, start, goal)>>>>

----------------------------------------------------------------------------
(* yen.rs: k_shortest_path_yen, called for one start and one goal          *)

MaxK == 3

\* for (e, c) in eds { if *e == d { total_cost += *c; break; } }
RECURSIVE FirstEdgeCost(_, _)
FirstEdgeCost(eds, d) ==
    IF eds = <<>> THEN 0
    ELSE IF Head(eds)[1] = d THEN Head(eds)[2] ELSE FirstEdgeCost(Tail(eds), d)

\* the cost added for the hops of root_path
RECURSIVE RootCost(_, _)
RootCost(edges, root_path) ==
    IF Len(root_path) < 2 THEN 0
    ELSE Plus(FirstEdgeCost(edges[root_path[1]], root_path[2]),
              RootCost(edges, Tail(root_path)))

\* forbidden_edges for the spur at index i (counted from 0)
YenForbiddenEdges(k_shortest, root_path, i) ==
    {<<k_shortest[j][2][i + 1], k_shortest[j][2][i + 2]>> :
        j \in {x \in DOMAIN k_shortest :
                 /\ Len(k_shortest[x][2]) >= Len(root_path) + 1
                 /\ SubSeq(k_shortest[x][2], 1, i + 1) = root_path}}

\* the loop over the spur nodes i, i + 1, .. of prev_path
RECURSIVE YenSpurs(_, _, _, _, _)
YenSpurs(in, k_shortest, prev_path, i, st) ==
    IF i >= Len(prev_path) - 1 THEN st
    ELSE LET spur_node == prev_path[i + 1]
             root_path == SubSeq(prev_path, 1, i + 1)
             forbidden_edges == YenForbiddenEdges(k_shortest, root_path, i)
             forbidden_nodes == {prev_path[j] : j \in 1..i}
             spur == dijkstra(in.edges, spur_node, in.goal, forbidden_edges, forbidden_nodes)
         IN IF spur = <<>> THEN YenSpurs(in, k_shortest, prev_path, i + 1, st)
            ELSE LET total_cost == Plus(spur[1][1], RootCost(in.edges, root_path))
                     total_path == SubSeq(root_path, 1, Len(root_path) - 1) \o spur[1][2]
                     pushed == IF \A c \in DOMAIN st.candidates :
                                        st.candidates[c][2] # total_path
                               THEN Append(st.candidates, <<total_cost, total_path>>)
                               ELSE st.candidates
                 IN IF in.tripped
                    THEN [candidates |-> pushed, status |-> "Cancelled"]
                    ELSE YenSpurs(in, k_shortest, prev_path, i + 1,
                                  [candidates |-> pushed, status |-> "go"])

\* candidates.sort_by(|(a, _), (b, _)| b.total_cmp(a)): stable, costs descending
RECURSIVE InsertDesc(_, _)
InsertDesc(sorted, x) ==
    IF sorted = <<>> THEN <<x>>
    ELSE IF sorted[Len(sorted)][1] >= x[1] THEN Append(sorted, x)
         ELSE Append(InsertDesc(SubSeq(sorted, 1, Len(sorted) - 1), x), sorted[Len(sorted)])

RECURSIVE SortDesc(_)
SortDesc(q) ==
    IF q = <<>> THEN <<>>
    ELSE InsertDesc(SortDesc(SubSeq(q, 1, Len(q) - 1)), q[Len(q)])

\* one turn of `for _ in 1..k`
YenTurnOf(in, st) ==
    LET prev_path == st.k_shortest[Len(st.k_shortest)][2]
        sp == YenSpurs(in, st.k_shortest, prev_path, 0,
                       [candidates |-> st.candidates, status |-> "go"])
    IN IF sp.status = "Cancelled"
       THEN [k_shortest |-> st.k_shortest, candidates |-> sp.candidates, status |-> "Cancelled"]
       ELSE IF sp.candidates = <<>>
            THEN [k_shortest |-> st.k_shortest, candidates |-> <<>>, status |-> "break"]
            ELSE LET sorted == SortDesc(sp.candidates)
                 IN [k_shortest |-> Append(st.k_shortest, sorted[Len(sorted)]),
                     candidates |-> SubSeq(sorted, 1, Len(sorted) - 1),
                     status |-> "go"]

\* the tuples KShortestPathYen::run puts for one (start, goal) pair
YenTuples(start, goal, res) == {<<start, goal, res[j][1], res[j][2]>> : j \in DOMAIN res}

YenWeights == {0, 1, 2}

YenEdgeLists(n) ==
    UNION {[1..m -> NodesOf(n) \X NodesOf(n) \X YenWeights] : m \in 0..MaxEdges}

\* graphs on the nodes 0..3 with edges from lower to higher nodes only, each
\* pair of nodes joined by no edge, one edge, or two parallel edges of which
\* the dearer comes first
LayeredPairs == {<<u, v>> \in (0..3) \X (0..3) : u < v}

LayeredBundles == {<<>>, <<1>>, <<10>>, <<10, 1>>}

RECURSIVE LayeredAdj(_, _, _)
LayeredAdj(choice, u, v) ==
    IF v > 3 THEN <<>>
    ELSE [j \in DOMAIN choice[<<u, v>>] |-> <<v, choice[<<u, v>>][j]>>]
            \o LayeredAdj(choice, u, v + 1)

LayeredGraph(choice) == [u \in 0..3 |-> LayeredAdj(choice, u, u + 1)]

YenLocals == [k_shortest |-> <<>>, candidates |-> <<>>, status |-> "go"]

InitYen ==
    /\ StratifyIdle
    /\ EnvIdle
    /\ MagicIdle
    /\ \E k \in 1..MaxK :
        \/ \E n \in 1..MaxNodes : \E es \in YenEdgeLists(n), start \in NodesOf(n), goal \in NodesOf(n) :
            ain = [algo |-> "yen", edges |-> GraphOf(n, es), start |-> start,
                   goal |-> goal, k |-> k]
        \/ \E choice \in [LayeredPairs -> LayeredBundles] :
            ain = [algo |-> "yen", edges |-> LayeredGraph(choice), start |-> 0,
                   goal |-> 3, k |-> k]
    /\ al = [st |-> YenLocals, iter |-> 1, turns_after_trip |-> 0]
    /\ apc = "yen"
    /\ out = {}
    /\ poison = FALSE
    /\ ares = "none"

\* match dijkstra(edges, start, &Some(goal), &(), &()).into_iter().next()
YenFirst ==
    /\ apc = "yen"
    /\ LET first == dijkstra(ain.edges, ain.start, ain.goal, {}, {})
       IN IF first = <<>>
          THEN apc' = "done" /\ ares' = "Ok" /\ UNCHANGED al
          ELSE /\ al' = [al EXCEPT !.st.k_shortest = first]
               /\ apc' = "yen_loop"
               /\ UNCHANGED ares
    /\ UNCHANGED <<ain, out, poison>>
    /\ UNCHANGED <<svars, mvars, evars>>

\* for _ in 1..k { .. }
YenTurn ==
    /\ apc = "yen_loop"
    /\ al.iter < ain.k
    /\ al.st.status = "go"
    /\ LET st == YenTurnOf(ain @@ [tripped |-> poison], al.st)
       IN /\ al' = [st |-> st, iter |-> al.iter + 1, turns_after_trip |-> TurnsAfterTrip]
          /\ IF st.status = "Cancelled"
             THEN apc' = "done" /\ ares' = "Cancelled"
             ELSE UNCHANGED <<apc, ares>>
    /\ UNCHANGED <<ain, out, poison>>
    /\ UNCHANGED <<svars, mvars, evars>>

\* Ok(k_shortest), then run puts one tuple per path
YenReturn ==
    /\ apc = "yen_loop"
    /\ al.iter >= ain.k \/ al.st.status = "break"
    /\ apc' = "done"
    /\ ares' = "Ok"
    /\ out' = YenTuples(ain.start, ain.goal, al.st.k_shortest)
    /\ UNCHANGED <<ain, al, poison>>
    /\ UNCHANGED <<svars, mvars, evars>>

NextYen ==
    \/ YenFirst
    \/ YenTurn
    \/ YenReturn
    \/ Trip

SpecYen == InitYen /\ [][NextYen]_vars

----------------------------------------------------------------------------
(* yen.rs: KShortestPathYen::run with more than one (start, goal) pair,    *)
(* the pairs handed to the workers through par_bridge                      *)

\* k_shortest_path_yen(k, &graph, start, goal, poison.clone()) as one call,
\* under a token that is tripped or not for the whole call
RECURSIVE YenLoop(_, _, _)
YenLoop(in, st, iter) ==
    IF iter >= in.k \/ st.status # "go" THEN st
    ELSE YenLoop(in, YenTurnOf(in, st), iter + 1)

YenCall(k, edges, start, goal, tripped) ==
    LET in == [edges |-> edges, start |-> start, goal |-> goal, k |-> k, tripped |-> tripped]
        first == dijkstra(edges, start, goal, {}, {})
        st == IF first = <<>> THEN YenLocals
              ELSE YenLoop(in, [YenLocals EXCEPT !.k_shortest = first], 1)
    IN IF st.status = "Cancelled" THEN [ok |-> FALSE, res |-> <<>>]
       ELSE [ok |-> TRUE, res |-> st.k_shortest]

UnitEdgeLists(n) ==
    UNION {[1..m -> NodesOf(n) \X NodesOf(n) \X {1}] : m \in 0..MaxEdges}

\* the (start, goal) pairs of starting_nodes and termination_nodes
YenPairs(starting_nodes, termination_nodes) == starting_nodes \X termination_nodes

InitYenRun ==
    /\ StratifyIdle
    /\ EnvIdle
    /\ MagicIdle
    /\ \E n \in 2..MaxNodes : \E es \in UnitEdgeLists(n), k \in 1..MaxK, tripped \in BOOLEAN,
            starting_nodes \in SUBSET NodesOf(n), termination_nodes \in SUBSET NodesOf(n) :
        /\ Cardinality(starting_nodes) > 1 \/ Cardinality(termination_nodes) > 1
        /\ Cardinality(YenPairs(starting_nodes, termination_nodes)) \in 1..MaxNodes
        /\ ain = [algo |-> "yen", edges |-> GraphOf(n, es), k |-> k, tripped |-> tripped,
                  starting_nodes |-> starting_nodes, termination_nodes |-> termination_nodes]
        /\ poison = tripped
    /\ al = [res_all |-> <<>>, failed |-> FALSE, turns_after_trip |-> 0]
    /\ apc = "yen_map"
    /\ out = {}
    /\ ares = "none"

\* the worker of one pair: Ok((start, goal, k_shortest_path_yen(..)?))
YenWorker ==
    /\ apc = "yen_map"
    /\ \E pair \in YenPairs(ain.starting_nodes, ain.termination_nodes)
                    \ {<<al.res_all[j][1], al.res_all[j][2]>> : j \in DOMAIN al.res_all} :
        LET call == YenCall(ain.k, ain.edges, pair[1], pair[2], poison)
        IN al' = [al EXCEPT !.failed = @ \/ ~call.ok,
                            !.res_all = Append(@, <<pair[1], pair[2], call.res, call.ok>>)]
    /\ UNCHANGED <<apc, ain, out, poison, ares>>
    /\ UNCHANGED <<svars, mvars, evars>>

\* .collect::<Result<_>>()?, then one tuple per path of every pair
YenCollect ==
    /\ apc = "yen_map"
    /\ IF al.failed
       THEN ares' = "Cancelled" /\ UNCHANGED out
       ELSE /\ Len(al.res_all)
                    = Cardinality(YenPairs(ain.starting_nodes, ain.termination_nodes))
            /\ ares' = "Ok"
            /\ out' = UNION {YenTuples(al.res_all[j][1], al.res_all[j][2], al.res_all[j][3]) :
                                j \in DOMAIN al.res_all}
    /\ apc' = "done"
    /\ UNCHANGED <<ain, al, poison>>
    /\ UNCHANGED <<svars, mvars, evars>>

----------------------------------------------------------------------------
(* dijkstra_keep_ties: Dijkstra that keeps, per node, the set of           *)
(* predecessors tied at the best distance, and returns every shortest      *)
(* path to every target.                                                   *)

RECURSIVE KeepTiesRelax(_, _, _, _)
KeepTiesRelax(adj, node, cost, st) ==
    IF adj = <<>> THEN st
    ELSE LET nxt_node == Head(adj)[1]
             nxt_cost == Plus(cost, Head(adj)[2])
         IN KeepTiesRelax(Tail(adj), node, cost,
                IF nxt_cost < st.distance[nxt_node]
                THEN [distance |-> [st.distance EXCEPT ![nxt_node] = nxt_cost],
                      preds |-> [st.preds EXCEPT ![nxt_node] = {node}],
                      pq |-> PqPushIncrease(st.pq, nxt_node, nxt_cost)]
                ELSE IF nxt_cost = st.distance[nxt_node] /\ nxt_cost # INFINITY
                     THEN [st EXCEPT !.preds[nxt_node] = @ \cup {node}]
                     ELSE st)

RECURSIVE KeepTiesLoop(_, _)
KeepTiesLoop(edges, st) ==
    IF DOMAIN st.pq = {} THEN st
    ELSE LET node == PqFirst(st.pq)
             popped == [st EXCEPT !.pq = PqRemove(st.pq, node)]
         IN KeepTiesLoop(edges, KeepTiesRelax(edges[node], node, st.pq[node], popped))

RECURSIVE TiedPaths(_, _, _)
TiedPaths(preds, start, target) ==
    IF target = start THEN {<<start>>}
    ELSE UNION {{Append(q, target) : q \in TiedPaths(preds, start, u)} : u \in preds[target]}

\* the groups of the result: per reached target its shortest paths
dijkstra_keep_ties(edges, start) ==
    LET st == KeepTiesLoop(edges,
                [distance |-> [v \in DOMAIN edges |-> IF v = start THEN 0 ELSE INFINITY],
                 preds |-> [v \in DOMAIN edges |-> {}],
                 pq |-> PqPush(EmptyMap, start, 0)])
    IN [target \in {v \in DOMAIN edges : st.distance[v] # INFINITY} |->
            TiedPaths(st.preds, start, target)]

----------------------------------------------------------------------------
(* all_pairs_shortest_path.rs: BetweennessCentrality::run. The values are  *)
(* kept as fractions <<numerator, denominator>> in lowest terms.           *)

RECURSIVE Gcd(_, _)
Gcd(a, b) == IF b = 0 THEN a ELSE Gcd(b, a % b)

Frac(num, den) == LET g == Gcd(num, den) IN <<num \div g, den \div g>>

FracAdd(x, y) == Frac(x[1] * y[2] + y[1] * x[2], x[2] * y[2])

FracZero == <<0, 1>>

\* a mutant: the endpoints of a path are credited as well
MiddlesWithEnds(path) == {path[j] : j \in DOMAIN path}

\* path.iter().take(path.len() - 1).skip(1)
Middles(path) == {path[j] : j \in 2..(Len(path) - 1)}

\* what one group of l tied paths adds to the entry of node v: 1 / l for
\* every path of at least 3 nodes that has v among its middles
GroupCredit(grp, v) ==
    Frac(Cardinality({path \in grp : Len(path) >= 3 /\ v \in Middles(path)}),
         Cardinality(grp))

RECURSIVE SumCredits(_, _, _)
SumCredits(groups, targets, v) ==
    IF targets = {} THEN FracZero
    ELSE LET t == CHOOSE x \in targets : TRUE
         IN FracAdd(GroupCredit(groups[t], v), SumCredits(groups, targets \ {t}, v))

\* the map ret of the worker of one start node (absent entries are 0)
BetweennessSeg(edges, start) ==
    LET groups == dijkstra_keep_ties(edges, start)
    IN [v \in DOMAIN edges |-> SumCredits(groups, DOMAIN groups, v)]

\* for m in centrality_segs { for (k, v) in m { centrality[k] += v; } }
RECURSIVE SumSegs(_, _, _)
SumSegs(segs, start, v) ==
    IF start \notin DOMAIN segs THEN FracZero
    ELSE FracAdd(segs[start][v], SumSegs(segs, start + 1, v))

\* a betweenness run on its own, the token never tripped
BetweennessAlone(edges) ==
    [i \in DOMAIN edges |->
        SumSegs([start \in DOMAIN edges |-> BetweennessSeg(edges, start)], 0, i)]

InitBetweenness ==
    /\ StratifyIdle
    /\ EnvIdle
    /\ MagicIdle
    /\ \E n \in 1..MaxNodes : \E es \in CentralityEdgeLists(n), tripped \in BOOLEAN :
        /\ ain = [algo |-> "betweenness", edges |-> GraphOf(n, es), tripped |-> tripped]
        /\ poison = tripped
    /\ al = [segs |-> EmptyMap, failed |-> FALSE, finished |-> <<>>, turns_after_trip |-> 0]
    /\ apc = "betweenness_map"
    /\ out = {}
    /\ ares = "none"

\* the worker of one start node: dijkstra_keep_ties(..)? and the map ret
BetweennessWorker ==
    /\ apc = "betweenness_map"
    /\ \E start \in DOMAIN ain.edges \ {al.finished[j] : j \in DOMAIN al.finished} :
        al' = IF poison
              THEN [al EXCEPT !.failed = TRUE, !.finished = Append(@, start)]
              ELSE [al EXCEPT !.segs = MapPut(@, start, BetweennessSeg(ain.edges, start)),
                              !.finished = Append(@, start)]
    /\ UNCHANGED <<apc, ain, out, poison, ares>>
    /\ UNCHANGED <<svars, mvars, evars>>

\* .collect::<Result<_>>()?, the sum of the maps and one tuple per node
BetweennessCollect ==
    /\ apc = "betweenness_map"
    /\ IF al.failed
       THEN ares' = "Cancelled" /\ UNCHANGED out
       ELSE /\ Len(al.finished) = Cardinality(DOMAIN ain.edges)
            /\ ares' = "Ok"
            /\ out' = {<<i, SumSegs(al.segs, 0, i)>> : i \in DOMAIN ain.edges}
    /\ apc' = "done"
    /\ UNCHANGED <<ain, al, poison>>
    /\ UNCHANGED <<svars, mvars, evars>>

NextBetweenness ==
    \/ BetweennessWorker
    \/ BetweennessCollect
    \/ Trip

SpecBetweenness == InitBetweenness /\ [][NextBetweenness]_vars

----------------------------------------------------------------------------
(* The three algorithms that hand their partitions to a worker pool        *)

InitParallel == InitCloseness \/ InitBetweenness \/ InitYenRun

NextParallel ==
    \/ ClosenessWorker
    \/ ClosenessCollect
    \/ ClosenessPut
    \/ BetweennessWorker
    \/ BetweennessCollect
    \/ YenWorker
    \/ YenCollect
    \/ Trip

SpecParallel == InitParallel /\ [][NextParallel]_vars

----------------------------------------------------------------------------
(* AlgoImpl::arity of each algorithm                                       *)

BetweennessArity == 2

ClosenessArity == 2

KruskalArity == 3

PrimArity == 3

AStarArity == 4

YenArity == 4

BfsArity == 1

ArityOf(algo) ==
    CASE algo = "betweenness" -> BetweennessArity
      [] algo = "closeness" -> ClosenessArity
      [] algo = "kruskal" -> KruskalArity
      [] algo = "prim" -> PrimArity
      [] algo = "astar" -> AStarArity
      [] algo = "yen" -> YenArity
      [] algo = "bfs" -> BfsArity

\* C14 as stated: once the token is tripped, no algorithm starts a second
\* turn of its outer loop, because every turn polls the token.
C14_AtMostOneTurnAfterTrip ==
    apc # "idle" => al.turns_after_trip <= 1

\* C15 as stated: a run that ends with the cancellation error has put no
\* tuple into the output relation.
C15_NoOutputWhenCancelled ==
    (apc = "done" /\ ares = "Cancelled") => out = {}

\* dijkstra_cost_only run to its end on its own, the token never tripped
RECURSIVE DijkstraCostOnlyAlone(_, _)
DijkstraCostOnlyAlone(edges, st) ==
    IF DOMAIN st.pq = {} THEN st.distance
    ELSE DijkstraCostOnlyAlone(edges,
            DijkstraCostOnlyTurn(edges, st, CHOOSE node \in PqFront(st.pq) : TRUE).st)

\* the partitions of a closeness run taken one after another
ClosenessOneByOne(edges) ==
    [start \in DOMAIN edges |->
        ClosenessValue(DijkstraCostOnlyAlone(edges, DijkstraCostOnlyStart(edges, start)),
                       Cardinality(DOMAIN edges))]

\* the pairs of a Yen run taken one after another under a token that is
\* tripped or not for the whole run
YenOneByOne(in, tripped) ==
    LET pairs == YenPairs(in.starting_nodes, in.termination_nodes)
        calls == [pair \in pairs |-> YenCall(in.k, in.edges, pair[1], pair[2], tripped)]
    IN [ok |-> \A pair \in pairs : calls[pair].ok,
        tuples |-> UNION {YenTuples(pair[1], pair[2], calls[pair].res) : pair \in pairs}]

BetweennessTuples(edges) == {<<i, BetweennessAlone(edges)[i]>> : i \in DOMAIN edges}

\* C16: whatever the order in which the workers of a closeness, betweenness
\* or Yen run take their turns and finish, a run that ends Ok has put exactly
\* the tuples that its partitions give when run one after another (for
\* closeness the collected vector is that of the partitions in index order);
\* a run whose token is never tripped ends Ok, and a run whose token was
\* tripped before it began ends as the one-after-another run under a tripped
\* token does and puts nothing if that is the cancellation error.
C16_ScheduleIndependent ==
    /\ ain.algo = "closeness" =>
        LET one_by_one == ClosenessOneByOne(ain.edges)
            tuples == {<<i, one_by_one[i]>> : i \in DOMAIN ain.edges}
        IN /\ apc = "closeness_put" => al.res = one_by_one
           /\ apc = "done" =>
                /\ ~poison => ares = "Ok"
                /\ ares = "Ok" => out = tuples
                /\ ares = "Cancelled" => poison /\ out \subseteq tuples
                /\ ain.tripped => ares = "Cancelled" /\ out = {}
    /\ (ain.algo = "betweenness" /\ apc = "done") =>
        /\ ~poison => ares = "Ok"
        /\ ares = "Ok" => out = BetweennessTuples(ain.edges)
        /\ ares = "Cancelled" => poison /\ out = {}
        /\ ain.tripped => ares = "Cancelled"
    /\ (ain.algo = "yen" /\ apc = "done") =>
        /\ ~poison => ares = "Ok"
        /\ ares = "Ok" => out = YenOneByOne(ain, FALSE).tuples
        /\ ares = "Cancelled" => poison /\ out = {}
        /\ ain.tripped => (ares = "Ok" <=> YenOneByOne(ain, TRUE).ok)

\* a finished run of three workers of which the last partition finished
\* first, with distinct values per partition
C16_Witness ==
    /\ ain.algo = "closeness"
    /\ apc = "done"
    /\ ares = "Ok"
    /\ Len(al.finished) = 3
    /\ al.finished[1] = 2
    /\ al.finished[3] = 0
    /\ al.res[0] # al.res[2]
    /\ Cardinality(out) = 3

\* C17 as stated: every tuple a run puts into the output relation is as
\* long as the arity its algorithm declares.
C17_TuplesHaveDeclaredArity ==
    apc = "done" => \A t \in out : Len(t) = ArityOf(ain.algo)

\* the loopless paths of g that extend p and end in goal
RECURSIVE LooplessFrom(_, _, _)
LooplessFrom(g, goal, p) ==
    IF p[Len(p)] = goal THEN {p}
    ELSE UNION {LooplessFrom(g, goal, Append(p, v)) :
                    v \in {g[p[Len(p)]][i][1] : i \in DOMAIN g[p[Len(p)]]}
                            \ {p[j] : j \in DOMAIN p}}

LooplessPaths(g, start, goal) == LooplessFrom(g, goal, <<start>>)

\* the weight of a path given by its nodes: per hop the cheapest edge
RECURSIVE PathWeight(_, _)
PathWeight(g, p) ==
    IF Len(p) < 2 THEN 0
    ELSE MinOf(EdgeWeights(g, p[1], p[2])) + PathWeight(g, Tail(p))

\* k_shortest_path_yen run to its end on its own, the token never tripped
RECURSIVE YenLoopAlone(_, _, _)
YenLoopAlone(in, st, iter) ==
    IF iter >= in.k \/ st.status # "go" THEN st.k_shortest
    ELSE YenLoopAlone(in, YenTurnOf(in, st), iter + 1)

YenAlone(k, edges, start, goal) ==
    LET in == [edges |-> edges, start |-> start, goal |-> goal, k |-> k, tripped |-> FALSE]
        first == dijkstra(edges, start, goal, {}, {})
    IN IF first = <<>> THEN <<>>
       ELSE YenLoopAlone(in, [YenLocals EXCEPT !.k_shortest = first], 1)

DiamondGraph ==
    GraphOf(4, <<<<0, 1, 1>>, <<0, 2, 1>>, <<1, 3, 1>>, <<2, 3, 1>>, <<1, 2, 1>>>>)

DiamondPaths == YenAlone(3, DiamondGraph, 0, 3)

YenReturned == apc = "done" /\ ares = "Ok" /\ ain.algo = "yen"

\* C19 as stated: k_shortest_path_yen returns min(k, number of loopless
\* start-to-goal paths) pairwise distinct loopless paths of the graph, each
\* with the sum of its edge weights as cost, in non-decreasing cost order,
\* and no loopless path left out is cheaper than one returned; on the
\* diamond with k = 3 it returns [0,1,3] 2, [0,2,3] 2, [0,1,2,3] 3.
C19_YenReturnsKShortest ==
    /\ DiamondPaths
            = <<<<2, <<0, 1, 3>>>>, <<2, <<0, 2, 3>>>>, <<3, <<0, 1, 2, 3>>>>>>
    /\ YenReturned =>
        LET res == al.st.k_shortest
            all == LooplessPaths(ain.edges, ain.start, ain.goal)
            returned == {res[j][2] : j \in DOMAIN res}
        IN /\ Len(res) = IF ain.k < Cardinality(all) THEN ain.k ELSE Cardinality(all)
           /\ Cardinality(returned) = Len(res)
           /\ returned \subseteq all
           /\ \A j \in DOMAIN res : res[j][1] = PathWeight(ain.edges, res[j][2])
           /\ \A i, j \in DOMAIN res : i < j => res[i][1] <= res[j][1]
           /\ \A p \in all \ returned : \A q \in returned :
                PathWeight(ain.edges, p) >= PathWeight(ain.edges, q)

\* the number of shortest paths from s to v, counted along the distances d
\* from s without building any path
RECURSIVE ShortestCount(_, _, _, _)
RECURSIVE ShortestCountOver(_, _, _, _, _)
ShortestCount(g, d, s, v) ==
    IF v = s THEN 1
    ELSE ShortestCountOver(g, d, s, v,
            {u \in DOMAIN g \ {v} :
                /\ d[u] # INFINITY
                /\ \E w \in EdgeWeights(g, u, v) : d[u] + w = d[v]})

ShortestCountOver(g, d, s, v, us) ==
    IF us = {} THEN 0
    ELSE LET u == CHOOSE x \in us : TRUE
         IN ShortestCount(g, d, s, u) + ShortestCountOver(g, d, s, v, us \ {u})

\* the pairs <<s, t>> that have v strictly inside one of their shortest paths
PairsThrough(g, v) ==
    LET dv == MinPathCost(g, v)
    IN {st \in (DOMAIN g \ {v}) \X (DOMAIN g \ {v}) :
            /\ st[1] # st[2]
            /\ LET ds == MinPathCost(g, st[1])
               IN ds[st[2]] # INFINITY /\ Plus(ds[v], dv[st[2]]) = ds[st[2]]}

\* the share of the shortest paths of the pairs that pass through v
RECURSIVE ShareThrough(_, _, _)
ShareThrough(g, v, pairs) ==
    IF pairs = {} THEN FracZero
    ELSE LET st == CHOOSE x \in pairs : TRUE
             ds == MinPathCost(g, st[1])
             dv == MinPathCost(g, v)
         IN FracAdd(Frac(ShortestCount(g, ds, st[1], v) * ShortestCount(g, dv, v, st[2]),
                         ShortestCount(g, ds, st[1], st[2])),
                    ShareThrough(g, v, pairs \ {st}))

\* the undirected unit-weight path 0-1-2-3-4
PathGraph ==
    GraphOf(5, <<<<0, 1, 1>>, <<1, 0, 1>>, <<1, 2, 1>>, <<2, 1, 1>>,
                 <<2, 3, 1>>, <<3, 2, 1>>, <<3, 4, 1>>, <<4, 3, 1>>>>)

PathGraphCentrality == BetweennessAlone(PathGraph)

BetweennessReturned == apc = "done" /\ ares = "Ok" /\ ain.algo = "betweenness"

\* C20: a betweenness run that returns has put exactly one tuple per node;
\* the value of a node is the sum, over the pairs of other nodes, of the
\* share of their tied shortest paths that have the node in the middle
\* (1/l per path of a group of l), so it is positive exactly for the nodes
\* that lie strictly inside some shortest path and 0 for the others; on the
\* path 0-1-2-3-4 nodes 1, 2, 3 are positive and 0, 4 are zero.
C20_BetweennessCreditsMiddles ==
    /\ \A i \in 0..4 : (PathGraphCentrality[i][1] > 0) <=> (i \in {1, 2, 3})
    /\ BetweennessReturned =>
        /\ Cardinality(out) = Cardinality(DOMAIN ain.edges)
        /\ \A i \in DOMAIN ain.edges : \E t \in out : t[1] = i
        /\ \A t \in out :
            /\ t[2] = ShareThrough(ain.edges, t[1], PairsThrough(ain.edges, t[1]))
            /\ (t[2][1] > 0) <=> (PairsThrough(ain.edges, t[1]) # {})
            /\ t[2][1] >= 0

\* a returned run in which one node got half a credit from a group of two
\* tied paths and another node got none
C20_Witness ==
    /\ BetweennessReturned
    /\ \E t \in out : t[2] = <<1, 2>>
    /\ \E t \in out : t[2] = FracZero
    /\ al.finished[1] # 0

----------------------------------------------------------------------------
(* yen.rs: KShortestPathYen::run from its relations on. The graph has the  *)
(* nodes 0..n-1; the value n in a relation is a node the graph lacks.      *)

\* inv_indices.get(node): the index of a node of the graph, if it has one
InvIndices(edges) == [node \in DOMAIN edges |-> node]

\* for tuple in rel.iter(..)? { if let Some(idx) = inv_indices.get(node) { set.insert(*idx); } }
YenNodesOf(rel, inv_indices) == {inv_indices[node] : node \in rel \cap DOMAIN inv_indices}

InitYenNodes ==
    /\ StratifyIdle
    /\ EnvIdle
    /\ MagicIdle
    /\ \E n \in 1..MaxNodes : \E es \in UnitEdgeLists(n), k \in 1..MaxK,
            starting \in SUBSET (0..n), termination \in SUBSET (0..n) :
        /\ Cardinality(starting) * Cardinality(termination) \in 1..MaxNodes
        /\ ain = [algo |-> "yen", edges |-> GraphOf(n, es), k |-> k,
                  starting |-> starting, termination |-> termination,
                  starting_nodes |-> {}, termination_nodes |-> {}, start |-> 0, goal |-> 0]
    /\ al = [st |-> YenLocals, iter |-> 1, res_all |-> <<>>, failed |-> FALSE,
             turns_after_trip |-> 0]
    /\ apc = "yen_nodes"
    /\ out = {}
    /\ poison = FALSE
    /\ ares = "none"

\* the two loops over the relations and the choice of the branch
YenResolve ==
    /\ apc = "yen_nodes"
    /\ LET starting_nodes == YenNodesOf(ain.starting, InvIndices(ain.edges))
           termination_nodes == YenNodesOf(ain.termination, InvIndices(ain.edges))
           one == Cardinality(starting_nodes) <= 1 /\ Cardinality(termination_nodes) <= 1
           none == starting_nodes = {} \/ termination_nodes = {}
       IN /\ ain' = [ain EXCEPT !.starting_nodes = starting_nodes,
                                !.termination_nodes = termination_nodes,
                                !.start = IF none THEN 0 ELSE MinOf(starting_nodes),
                                !.goal = IF none THEN 0 ELSE MinOf(termination_nodes)]
          /\ apc' = IF ~one THEN "yen_map" ELSE IF none THEN "done" ELSE "yen"
          /\ ares' = IF one /\ none THEN "Ok" ELSE ares
    /\ UNCHANGED <<al, out, poison>>
    /\ UNCHANGED <<svars, mvars, evars>>

NextYenNodes ==
    \/ YenResolve
    \/ YenFirst
    \/ YenTurn
    \/ YenReturn
    \/ YenWorker
    \/ YenCollect
    \/ Trip

SpecYenNodes == InitYenNodes /\ [][NextYenNodes]_vars

\* C21 as stated: a run whose starting or termination relation names a node
\* that the graph lacks ends with an error and puts no tuple.
C21_AbsentNodeFails ==
    (apc = "done" /\ (ain.starting \cup ain.termination) \ DOMAIN ain.edges # {})
        => ares \notin {"Ok", "Cancelled"} /\ out = {}

----------------------------------------------------------------------------
(* C22: an algorithm rule has exactly one edge per InMem argument, every   *)
(* one poisoned, and none for a Stored argument; where stratify goes on    *)
(* past the cycle check no reachable algorithm rule shares a strongly      *)
(* connected component with one of its InMem inputs, and a reachable       *)
(* algorithm rule that feeds itself makes stratify fail.                   *)
FeedsItself(p, k) == \E v \in RuleRefs(p, k) : k \in ReachFrom(RefGraph(p), {v})

C22_AlgoEdgesFromInMem ==
    /\ pc # "graph" =>
        \A k \in DOMAIN stratified_graph : prog[k].algo =>
            /\ DOMAIN stratified_graph[k] = RuleRefs(prog, k)
            /\ \A v \in DOMAIN stratified_graph[k] : stratified_graph[k][v]
            /\ \A i \in 1..Len(prog[k].rule_args) :
                prog[k].rule_args[i].tag # "InMem"
                    => prog[k].rule_args[i].name \notin DOMAIN stratified_graph[k]
    /\ pc \in {"reduce", "translate", "done"} =>
        \A k \in ReachableRules(prog) : prog[k].algo =>
            \A i \in 1..Len(sccs) : k \in sccs[i] => RuleRefs(prog, k) \cap sccs[i] = {}
    /\ pc \notin {"graph", "reach", "scc"} =>
        \A k \in ReachableRules(prog) :
            (prog[k].algo /\ FeedsItself(prog, k)) => pc = "failed" /\ err.kind = "unstratifiable"

\* an algorithm rule that reads its own output through another rule is rejected
C22_Witness ==
    /\ pc = "failed"
    /\ \E k \in ReachableRules(prog) :
        /\ prog[k].algo
        /\ k \notin RuleRefs(prog, k)
        /\ FeedsItself(prog, k)
        /\ Len(prog[k].rule_args) > Cardinality(RuleRefs(prog, k))

----------------------------------------------------------------------------
(* The supplementary rules of a rewritten rule.                            *)

\* s followed by the members of args that s lacks, in the order of args
RECURSIVE AppendNew(_, _)
AppendNew(s, args) ==
    IF args = <<>> THEN s
    ELSE AppendNew(IF Head(args) \in SeqSet(s) THEN s ELSE Append(s, Head(args)),
                   Tail(args))

\* the variables bound by the atoms of body, each at its first occurrence
RECURSIVE FirstBound(_, _)
FirstBound(body, s) ==
    IF body = <<>> THEN s
    ELSE FirstBound(Tail(body),
                    IF Head(body).tag \in {"Relation", "Unification", "Rule"}
                    THEN AppendNew(s, Head(body).args) ELSE s)

\* the variables bound before atom i of rule j of the adorned rule set k
SeenInOrder(k, j, i) ==
    LET rule == adorned_prog[k].rules[j]
    IN FirstBound(SubSeq(rule.body, 1, i - 1),
                  IF has_bound_adornment(k)
                  THEN AppendNew(<<>>, BoundArgs(rule.head, magic_adornment(k)))
                  ELSE <<>>)

SeenSorted(k, j, i) == SortedSyms(SeqSet(SeenInOrder(k, j, i)))

\* the calls with a bound argument before atom i of rule j of k
CallsBefore(k, j, i) ==
    {x[3] : x \in {y \in BoundCalls(adorned_prog) : y[1] = k /\ y[2] = j /\ y[3] < i}}

\* the number of supplementary rules made before atom i is met
SupsBefore(k, j, i) ==
    (IF has_bound_adornment(k) THEN 1 ELSE 0) + Cardinality(CallsBefore(k, j, i))

SupKey(k, j, n) == Sup(k.inner, magic_adornment(k), j - 1, n)

\* the accumulator when atom i of rule j of k is met
AccumulatedAt(k, j, i) ==
    LET body == adorned_prog[k].rules[j].body
        prev == CallsBefore(k, j, i)
        n == SupsBefore(k, j, i)
        from == IF prev = {} THEN 1 ELSE CHOOSE m \in prev : \A o \in prev : o <= m
    IN IF n = 0 THEN SubSeq(body, 1, i - 1)
       ELSE <<RuleApp(SupKey(k, j, n - 1), ret_prog[SupKey(k, j, n - 1)].rules[1].head)>>
                \o SubSeq(body, from, i - 1)

\* body with every reference to a supplementary rule replaced by the body of that rule
RECURSIVE ExpandSups(_, _)
ExpandSups(mp, body) ==
    IF body = <<>> THEN <<>>
    ELSE (IF Head(body).tag = "Rule" /\ Head(body).name.kind = "Sup"
          THEN ExpandSups(mp, mp[Head(body).name].rules[1].body)
          ELSE <<Head(body)>>) \o ExpandSups(mp, Tail(body))

\* the body of the supplementary rule of a head with a bound position
InputCall(k, j) ==
    IF has_bound_adornment(k)
    THEN <<RuleApp(Input(k.inner, magic_adornment(k)),
                   BoundArgs(adorned_prog[k].rules[j].head, magic_adornment(k)))>>
    ELSE <<>>

\* every supplementary rule made at a call has the accumulator as its body,
\* the accumulator restarts with the reference to it, and the rewritten
\* rule expands to the body it came from
SupBodiesAccumulate ==
    /\ \A x \in BoundCalls(adorned_prog) :
        ret_prog[SupKey(x[1], x[2], SupsBefore(x[1], x[2], x[3]))].rules[1].body
            = AccumulatedAt(x[1], x[2], x[3])
    /\ \A k \in {h \in DOMAIN adorned_prog : ~adorned_prog[h].algo} :
        \A j \in 1..Len(adorned_prog[k].rules) :
            LET body == adorned_prog[k].rules[j].body
            IN /\ ret_prog[k].rules[j].body = AccumulatedAt(k, j, Len(body) + 1)
               /\ ExpandSups(ret_prog, ret_prog[k].rules[j].body) = InputCall(k, j) \o body

(* C23 as stated: the supplementary rule made at a call with a bound       *)
(* argument has as head the variables bound so far in the order of their   *)
(* first binding and as body the atoms accumulated since the previous      *)
(* supplementary rule; expanding the references gives the original body.   *)
C23_SupHeadInsertionOrder ==
    mpc = "done" =>
        /\ \A x \in BoundCalls(adorned_prog) :
            ret_prog[SupKey(x[1], x[2], SupsBefore(x[1], x[2], x[3]))].rules[1].head
                = SeenInOrder(x[1], x[2], x[3])
        /\ SupBodiesAccumulate

(* C23 as the code has it: the head of that supplementary rule is the set  *)
(* of variables bound so far in ascending order of Symbol; its body is the *)
(* accumulator, and expanding the references to supplementary rules in a   *)
(* rewritten rule gives the original body, after the Input call when the   *)
(* head of the rule set has a bound position.                              *)
C23_SupHeadSymbolOrder ==
    mpc = "done" =>
        /\ \A x \in BoundCalls(adorned_prog) :
            ret_prog[SupKey(x[1], x[2], SupsBefore(x[1], x[2], x[3]))].rules[1].head
                = SeenSorted(x[1], x[2], x[3])
        /\ SupBodiesAccumulate

\* a second supplementary rule whose variables were bound in another order
\* than that of Symbol
C23_Witness ==
    /\ mpc = "done"
    /\ \E x \in BoundCalls(adorned_prog) :
        /\ SeenInOrder(x[1], x[2], x[3]) # SeenSorted(x[1], x[2], x[3])
        /\ CallsBefore(x[1], x[2], x[3]) # {}

----------------------------------------------------------------------------
(* The worklist of NormalFormProgram::adorn.                               *)

\* the strata with all three rule sets whose bodies are made of calls and
\* stored relations, one call in the entry rule
InitAdorn ==
    /\ InitMagic
    /\ DOMAIN nf_prog = RuleNames
    /\ Len(nf_prog[PROG_ENTRY].rules[1].body) = 1
    /\ \A n \in RuleNames :
        /\ ~nf_prog[n].algo
        /\ \A j \in 1..Len(nf_prog[n].rules) :
            \A i \in 1..Len(nf_prog[n].rules[j].body) :
                nf_prog[n].rules[j].body[i].tag \in {"Rule", "Relation"}

\* adorn runs on one thread and nothing makes it wait: each of its steps
\* is taken once it can be
SpecAdornFair ==
    /\ InitAdorn
    /\ [][NextMagic]_vars
    /\ WF_vars(ExemptAggr)
    /\ WF_vars(AdornStart)
    /\ WF_vars(AdornPending)
    /\ WF_vars(MagicRewriteStart)

\* one pop: a head that is already adorned is dropped and nothing else
\* changes; any other head becomes a new key and no key is adorned again
AdornPopOnce ==
    AdornPending =>
        LET head == pending_adornment[Len(pending_adornment)]
            rest == SubSeq(pending_adornment, 1, Len(pending_adornment) - 1)
        IN /\ head \in DOMAIN adorned_prog =>
                /\ adorned_prog' = adorned_prog
                /\ pending_adornment' = rest
           /\ head \notin DOMAIN adorned_prog =>
                /\ DOMAIN adorned_prog' = DOMAIN adorned_prog \cup {head}
                /\ head.kind = "Magic" /\ head.inner \in DOMAIN nf_prog
                /\ Len(head.adornment) = Len(nf_prog[head.inner].rules[1].head)
           /\ \A k \in DOMAIN adorned_prog : adorned_prog'[k] = adorned_prog[k]

(* C24: in every stratum each (rule, adornment) pair is adorned at most    *)
(* once, a popped head that the adorned program already has is skipped,    *)
(* and the worklist is empty after finitely many pops.                     *)
C24_AdornTerminates ==
    /\ [][AdornPopOnce]_vars
    /\ <>(mpc = "rewrite" /\ pending_adornment = <<>>)

\* the loop is about to skip a head, after it has adorned two Magic heads
C24_Witness ==
    /\ mpc = "pending"
    /\ pending_adornment # <<>>
    /\ pending_adornment[Len(pending_adornment)] \in DOMAIN adorned_prog
    /\ Cardinality(KeysOfKind(adorned_prog, {"Magic"})) >= 2

----------------------------------------------------------------------------
(* prim.rs: prim, and both spanning-tree algorithms on undirected graphs   *)

MstWeights == {1, 2}

\* the edge relations handed to the two algorithms: rows (a, b, weight)
\* between different nodes, the same pair possibly more than once
MstEdgeLists(n) ==
    UNION {[1..m -> {x \in NodesOf(n) \X NodesOf(n) \X MstWeights : x[1] < x[2]}] :
            m \in 0..MaxEdges}

\* convert_edge_to_weighted_graph(undirected = true, ..): every row is an
\* edge in both directions
RECURSIVE BothWays(_)
BothWays(es) ==
    IF es = <<>> THEN <<>>
    ELSE <<Head(es), <<Head(es)[2], Head(es)[1], Head(es)[3]>>>> \o BothWays(Tail(es))

UndirectedGraphOf(n, es) == GraphOf(n, BothWays(es))

\* PriorityQueue<to_node, (Reverse(cost), from_node)>: p is above q
PrimAbove(p, q) == p[1] < q[1] \/ (p[1] = q[1] /\ p[2] > q[2])

PrimFront(pq) == {x \in DOMAIN pq : \A y \in DOMAIN pq : ~PrimAbove(pq[y], pq[x])}

\* pq.push_increase(to_node, (Reverse(cost), node))
PrimPushIncrease(pq, to_node, prio) ==
    IF to_node \in DOMAIN pq /\ ~PrimAbove(prio, pq[to_node]) THEN pq
    ELSE MapPut(pq, to_node, prio)

\* relax_edges_at_node, the edges of node one by one
RECURSIVE PrimRelaxEdges(_, _, _, _)
PrimRelaxEdges(adj, node, visited, pq) ==
    IF adj = <<>> THEN pq
    ELSE PrimRelaxEdges(Tail(adj), node, visited,
            IF Head(adj)[1] \in visited THEN pq
            ELSE PrimPushIncrease(pq, Head(adj)[1], <<Head(adj)[2], node>>))

\* relax_edges_at_node
relax_edges_at_node(graph, node, st) ==
    [st EXCEPT !.visited = @ \cup {node},
               !.pq = PrimRelaxEdges(graph[node], node, st.visited \cup {node}, st.pq)]

\* one turn of the while loop with to_node popped: the new locals, whether
\* the loop was left by break, and whether the turn reached poison.check()
PrimTurn(graph, st, to_node) ==
    LET cost == st.pq[to_node][1]
        from_node == st.pq[to_node][2]
        popped == [st EXCEPT !.pq = PqRemove(st.pq, to_node)]
    IN IF Len(st.mst_edges) = Cardinality(DOMAIN graph) - 1
       THEN [st |-> popped, broke |-> TRUE, polled |-> FALSE]
       ELSE [st |-> relax_edges_at_node(graph, to_node,
                        [popped EXCEPT !.mst_edges = Append(@, <<from_node, to_node, cost>>)]),
             broke |-> FALSE, polled |-> TRUE]

\* MinimumSpanningTreePrim::run after prim returned: one tuple per edge
PrimTuples(mst_edges) == {mst_edges[i] : i \in DOMAIN mst_edges}

InitMst ==
    /\ StratifyIdle
    /\ EnvIdle
    /\ MagicIdle
    /\ \E n \in 1..MaxNodes : \E es \in MstEdgeLists(n) :
        \/ /\ ain = [algo |-> "kruskal", rows |-> es, edges |-> UndirectedGraphOf(n, es)]
           /\ al = [st |-> [pq |-> EmptyMap, uf |-> UnionFindNew(n), mst |-> <<>>, from |-> 0],
                    turns_after_trip |-> 0]
           /\ apc = "kruskal_fill"
        \/ \E starting \in NodesOf(n) :
           /\ ain = [algo |-> "prim", rows |-> es, edges |-> UndirectedGraphOf(n, es),
                     starting |-> starting]
           /\ al = [st |-> [pq |-> EmptyMap, visited |-> {}, mst_edges |-> <<>>],
                    turns_after_trip |-> 0]
           /\ apc = "prim_start"
    /\ out = {}
    /\ poison = FALSE
    /\ ares = "none"

\* let mut visited = ..; let mut mst_edges = ..; relax_edges_at_node(starting, ..)
PrimStart ==
    /\ apc = "prim_start"
    /\ al' = [al EXCEPT !.st = relax_edges_at_node(ain.edges, ain.starting, al.st)]
    /\ apc' = "prim_pop"
    /\ UNCHANGED <<ain, out, poison, ares>>
    /\ UNCHANGED <<svars, mvars, evars>>

\* while let Some((to_node, (Reverse(cost), from_node))) = pq.pop() { .. }
PrimPop ==
    /\ apc = "prim_pop"
    /\ \E to_node \in PrimFront(al.st.pq) :
        LET t == PrimTurn(ain.edges, al.st, to_node)
        IN /\ al' = [st |-> t.st, turns_after_trip |-> TurnsAfterTrip]
           /\ IF t.polled /\ poison
              THEN apc' = "done" /\ ares' = "Cancelled" /\ UNCHANGED out
              ELSE IF t.broke
                   THEN apc' = "done" /\ ares' = "Ok" /\ out' = PrimTuples(t.st.mst_edges)
                   ELSE UNCHANGED <<apc, ares, out>>
    /\ UNCHANGED <<ain, poison>>
    /\ UNCHANGED <<svars, mvars, evars>>

\* Ok(mst_edges), then run puts the tuples
PrimReturn ==
    /\ apc = "prim_pop"
    /\ DOMAIN al.st.pq = {}
    /\ apc' = "done"
    /\ ares' = "Ok"
    /\ out' = PrimTuples(al.st.mst_edges)
    /\ UNCHANGED <<ain, al, poison>>
    /\ UNCHANGED <<svars, mvars, evars>>

NextMst ==
    \/ KruskalFill
    \/ KruskalPop
    \/ KruskalReturn
    \/ PrimStart
    \/ PrimPop
    \/ PrimReturn
    \/ Trip

SpecMst == InitMst /\ [][NextMst]_vars

\* the nodes joined to the nodes of S by the rows of E, S included
RECURSIVE JoinedTo(_, _)
JoinedTo(E, S) ==
    LET N == S \cup {e[2] : e \in {x \in E : x[1] \in S}}
                \cup {e[1] : e \in {x \in E : x[2] \in S}}
    IN IF N = S THEN S ELSE JoinedTo(E, N)

ComponentsOf(V, E) == {JoinedTo(E, {v}) : v \in V}

SumWeights(rows, I) == SumOver([i \in 1..Len(rows) |-> rows[i][3]], I)

\* the sets of rows that join what all the rows join, with no row to spare
SpanningForests(V, rows) ==
    {I \in SUBSET (1..Len(rows)) :
        /\ ComponentsOf(V, {rows[i] : i \in I}) = ComponentsOf(V, SeqSet(rows))
        /\ Cardinality(I) = Cardinality(V) - Cardinality(ComponentsOf(V, SeqSet(rows)))}

MinForestWeight(V, rows) ==
    MinOf({SumWeights(rows, I) : I \in SpanningForests(V, rows)})

\* the edges returned, in the order they were accepted
MstReturned == IF ain.algo = "prim" THEN al.st.mst_edges ELSE al.st.mst

(* C25 as stated: on a connected undirected graph, parallel edges allowed, *)
(* prim from any start and kruskal return n-1 edges of the graph that      *)
(* form a spanning tree of the least possible total weight; on any graph   *)
(* kruskal returns n-c edges that form a spanning forest of least weight.  *)
C25_MinimumSpanningTree ==
    (apc = "done" /\ ares = "Ok") =>
        LET V == DOMAIN ain.edges
            mst == MstReturned
            cs == ComponentsOf(V, SeqSet(ain.rows))
        IN (ain.algo = "kruskal" \/ Cardinality(cs) = 1) =>
            /\ Len(mst) = Cardinality(V) - Cardinality(cs)
            /\ \A i \in 1..Len(mst) : <<mst[i][2], mst[i][3]>> \in SeqSet(ain.edges[mst[i][1]])
            /\ ComponentsOf(V, SeqSet(mst)) = cs
            /\ SumOver([i \in 1..Len(mst) |-> mst[i][3]], 1..Len(mst)) = MinForestWeight(V, ain.rows)
            /\ out = SeqSet(mst)

----------------------------------------------------------------------------
(* astar.rs: ShortestPathAStar                                             *)

AStarWeights == {0, 1}

HeuristicValues == {0, 2}

\* the edges relation: rows (src, dst, cost) between different nodes
AStarRows(n) == {x \in NodesOf(n) \X NodesOf(n) \X AStarWeights : x[1] # x[2]}

\* edges.prefix_iter(&node): the rows that begin with node, in the order of the relation
RECURSIVE SortedRows(_)
SortedRows(R) ==
    IF R = {} THEN <<>>
    ELSE LET m == CHOOSE x \in R : \A y \in R :
                    x[2] < y[2] \/ (x[2] = y[2] /\ x[3] <= y[3])
         IN <<m>> \o SortedRows(R \ {m})

prefix_iter(rows, node) == SortedRows({x \in rows : x[1] = node})

\* PriorityQueue<node, (Reverse(f), sub_priority)>: p is above q
AStarAbove(p, q) == p[1] < q[1] \/ (p[1] = q[1] /\ p[2] > q[2])

AStarPop(open_set) == CHOOSE x \in DOMAIN open_set :
                        \A y \in DOMAIN open_set \ {x} : AStarAbove(open_set[x], open_set[y])

AStarPushIncrease(open_set, item, prio) ==
    IF item \in DOMAIN open_set /\ ~AStarAbove(prio, open_set[item]) THEN open_set
    ELSE MapPut(open_set, item, prio)

\* let mut back_trace = ..; let mut g_score = ..; open_set.push(start_node, (0., 0))
AStarLocals(start_node) ==
    [back_trace |-> EmptyMap,
     g_score |-> MapPut(EmptyMap, start_node, 0),
     open_set |-> MapPut(EmptyMap, start_node, <<0, 0>>),
     sub_priority |-> 0]

\* the walk along back_trace from current to start_node, reversed
RECURSIVE AStarPath(_, _, _)
AStarPath(back_trace, current, start_node) ==
    IF current = start_node THEN <<current>>
    ELSE Append(AStarPath(back_trace, back_trace[current], start_node), current)

\* the for loop over the edges of node: the locals, and how the loop ended
RECURSIVE AStarEdges(_, _, _, _)
AStarEdges(in, node, adj, st) ==
    IF adj = <<>> THEN [st |-> st, status |-> "go", missing |-> -1]
    ELSE LET edge_dst == Head(adj)[2]
             edge_cost == Head(adj)[3]
             cost_to_src == IF node \in DOMAIN st.g_score THEN st.g_score[node] ELSE INFINITY
             tentative_cost_to_dst == Plus(cost_to_src, edge_cost)
             prev_cost_to_dst ==
                 IF edge_dst \in DOMAIN st.g_score THEN st.g_score[edge_dst] ELSE INFINITY
         IN IF tentative_cost_to_dst < prev_cost_to_dst
            THEN LET marked == [st EXCEPT !.back_trace = MapPut(@, edge_dst, node),
                                          !.g_score = MapPut(@, edge_dst, tentative_cost_to_dst)]
                 IN IF edge_dst \notin in.nodes
                    THEN [st |-> marked, status |-> "NodeNotFound", missing |-> edge_dst]
                    ELSE LET pushed ==
                               [marked EXCEPT
                                   !.sub_priority = @ + 1,
                                   !.open_set = AStarPushIncrease(@, edge_dst,
                                       <<tentative_cost_to_dst + in.heuristic[edge_dst],
                                         st.sub_priority + 1>>)]
                         IN IF in.tripped
                            THEN [st |-> pushed, status |-> "Cancelled", missing |-> -1]
                            ELSE AStarEdges(in, node, Tail(adj), pushed)
            ELSE IF in.tripped
                 THEN [st |-> st, status |-> "Cancelled", missing |-> -1]
                 ELSE AStarEdges(in, node, Tail(adj), st)

\* one turn of the while loop
AStarTurnOf(in, goal_node, start_node, st) ==
    LET node == AStarPop(st.open_set)
        cost == st.open_set[node][1]
        popped == [st EXCEPT !.open_set = PqRemove(@, node)]
    IN IF node = goal_node
       THEN [st |-> popped, status |-> "found", missing |-> -1,
             ret |-> <<cost, AStarPath(st.back_trace, node, start_node)>>]
       ELSE AStarEdges(in, node, prefix_iter(in.edges, node), popped)
                @@ [ret |-> <<>>]

\* out.put(Tuple(vec![start, goal, cost, path]))
AStarTuple(start, goal, found) == <<start, goal, found[1], found[2]>>

\* the (start, goal) pairs in the order of the two nested loops
AStarPairs(starting, goals) ==
    LET ss == SortedInts(starting)
        gs == SortedInts(goals)
    IN [i \in 1..(Len(ss) * Len(gs)) |->
            <<ss[((i - 1) \div Len(gs)) + 1], gs[((i - 1) % Len(gs)) + 1]>>]

InitAStar ==
    /\ StratifyIdle
    /\ EnvIdle
    /\ MagicIdle
    /\ \E n \in 1..MaxNodes : \E rows \in SubsetsUpTo(AStarRows(n), MaxEdges) :
        \E h \in [NodesOf(n) -> HeuristicValues] :
        \E absent \in {{}} \cup {{v} : v \in NodesOf(n)} :
        \E starting \in SUBSET NodesOf(n) \ {{}} : \E goal \in NodesOf(n) :
        /\ ain = [algo |-> "astar", edges |-> rows, nodes |-> NodesOf(n) \ absent,
                  heuristic |-> h, pairs |-> AStarPairs(starting, {goal})]
        /\ al = [st |-> AStarLocals(SortedInts(starting)[1]), pair |-> 1,
                 missing |-> -1, turns_after_trip |-> 0]
    /\ apc = "astar"
    /\ out = {}
    /\ poison = FALSE
    /\ ares = "none"

\* the return of astar for the pair at hand, the put, and the next pair
AStarNext(found) ==
    /\ out' = out \cup {AStarTuple(ain.pairs[al.pair][1], ain.pairs[al.pair][2], found)}
    /\ IF al.pair = Len(ain.pairs)
       THEN /\ apc' = "done"
            /\ ares' = "Ok"
            /\ al' = [al EXCEPT !.turns_after_trip = TurnsAfterTrip]
       ELSE /\ al' = [al EXCEPT !.pair = @ + 1,
                                !.st = AStarLocals(ain.pairs[al.pair + 1][1]),
                                !.turns_after_trip = TurnsAfterTrip]
            /\ UNCHANGED <<apc, ares>>

\* while let Some((node, ..)) = open_set.pop() { .. }
AStarTurn ==
    /\ apc = "astar"
    /\ DOMAIN al.st.open_set # {}
    /\ LET t == AStarTurnOf([edges |-> ain.edges, nodes |-> ain.nodes,
                             heuristic |-> ain.heuristic, tripped |-> poison],
                            ain.pairs[al.pair][2], ain.pairs[al.pair][1], al.st)
       IN CASE t.status = "found" -> AStarNext(t.ret)
            [] t.status = "go" ->
                /\ al' = [al EXCEPT !.st = t.st, !.turns_after_trip = TurnsAfterTrip]
                /\ UNCHANGED <<apc, ares, out>>
            [] OTHER ->
                /\ al' = [al EXCEPT !.st = t.st, !.missing = t.missing,
                                    !.turns_after_trip = TurnsAfterTrip]
                /\ apc' = "done"
                /\ ares' = t.status
                /\ UNCHANGED out
    /\ UNCHANGED <<ain, poison>>
    /\ UNCHANGED <<svars, mvars, evars>>

\* Ok((f64::INFINITY, vec![]))
AStarExhausted ==
    /\ apc = "astar"
    /\ DOMAIN al.st.open_set = {}
    /\ AStarNext(<<INFINITY, <<>>>>)
    /\ UNCHANGED <<ain, poison>>
    /\ UNCHANGED <<svars, mvars, evars>>

NextAStar ==
    \/ AStarTurn
    \/ AStarExhausted
    \/ Trip

SpecAStar == InitAStar /\ [][NextAStar]_vars

\* the nodes reached from the nodes of S along the rows of R, S included
RECURSIVE RowsReach(_, _)
RowsReach(R, S) ==
    LET N == S \cup {e[2] : e \in {x \in R : x[1] \in S}}
    IN IF N = S THEN S ELSE RowsReach(R, N)

\* the sums of edge weights that the walk path can have
RECURSIVE WalkCosts(_, _)
WalkCosts(R, path) ==
    IF Len(path) <= 1 THEN {0}
    ELSE {e[3] + c : e \in {x \in R : x[1] = path[1] /\ x[2] = path[2]},
                    c \in WalkCosts(R, Tail(path))}

(* C26 as stated: for any heuristic, the tuple put for a pair whose goal   *)
(* is reachable has a path from the start to the goal along edges and as   *)
(* cost the sum of the edge weights of that path; for start = goal it has  *)
(* cost 0 and the one-node path; for an unreachable goal it has infinite   *)
(* cost and the empty path; a run that ends well has put one tuple for     *)
(* every pair.                                                             *)
C26_AStarCostIsPathWeight ==
    /\ \A t \in out :
        IF t[2] \in RowsReach(ain.edges, {t[1]})
        THEN /\ Len(t[4]) >= 1
             /\ t[4][1] = t[1]
             /\ t[4][Len(t[4])] = t[2]
             /\ t[3] \in WalkCosts(ain.edges, t[4])
             /\ t[1] = t[2] => t[3] = 0 /\ t[4] = <<t[1]>>
        ELSE t[3] = INFINITY /\ t[4] = <<>>
    /\ (apc = "done" /\ ares = "Ok") =>
        \A i \in 1..Len(ain.pairs) :
            Cardinality({t \in out : t[1] = ain.pairs[i][1] /\ t[2] = ain.pairs[i][2]}) = 1

----------------------------------------------------------------------------
(* Breadth-first search from every starting node.                          *)

\* the least number of edges of E on a walk from the nodes of seen to v,
\* counted from d; v is reached from them
RECURSIVE HopsTo(_, _, _, _)
HopsTo(E, seen, v, d) ==
    IF v \in seen THEN d
    ELSE HopsTo(E, seen \cup {e[2] : e \in {x \in E : x[1] \in seen}}, v, d + 1)

(* C27 as stated: a run that ends well has put at most limit tuples, each  *)
(* (s, v, route) with a route from s to v along edges that has the fewest  *)
(* possible edges, and, unless limit tuples were put, one for every        *)
(* starting node s and every other node v that is reachable from s and     *)
(* satisfies the condition.                                                *)
C27_BfsFromEachStart ==
    (apc = "done" /\ ares = "Ok") =>
        /\ Cardinality(out) <= ain.limit
        /\ \A t \in out :
            /\ t[3][1] = t[1]
            /\ t[3][Len(t[3])] = t[2]
            /\ \A i \in 1..(Len(t[3]) - 1) : <<t[3][i], t[3][i + 1]>> \in ain.edges
            /\ Len(t[3]) - 1 = HopsTo(ain.edges, {t[1]}, t[2], 0)
        /\ Cardinality(out) < ain.limit =>
            \A s \in SeqSet(ain.starting_nodes) :
                \A v \in (RowsReach(ain.edges, {s}) \cap ain.condition) \ {s} :
                    \E t \in out : t[1] = s /\ t[2] = v

----------------------------------------------------------------------------
(* References to Magic, Sup and Input rule sets.                           *)

\* every positive call of a Magic, Sup or Input rule set names a key of mp
NoDanglingCall(mp) ==
    \A a \in CallSites(mp) : a.name.kind \in {"Magic", "Sup", "Input"} => a.name \in DOMAIN mp

\* every Magic key of mp is called somewhere in mp under that very name
MagicHeadsCalled(mp) ==
    \A k \in KeysOfKind(mp, {"Magic"}) : \E a \in CallSites(mp) : a.name = k

(* C28: once a stratum is adorned, and again once it is rewritten, every   *)
(* call of a Magic, Sup or Input rule set in a body names a key of the     *)
(* same program, and every Magic key is the name of at least one call,     *)
(* adornment included.                                                     *)
C28_NoDanglingMagicRefs ==
    /\ (mpc \in {"rewrite", "done"} \/ (mpc = "pending" /\ pending_adornment = <<>>)) =>
        /\ NoDanglingCall(adorned_prog)
        /\ MagicHeadsCalled(adorned_prog)
    /\ mpc = "done" =>
        /\ NoDanglingCall(ret_prog)
        /\ MagicHeadsCalled(ret_prog)

\* a rewritten stratum that calls rule sets of all three kinds, one Magic
\* rule set under two adornments
C28_Witness ==
    /\ mpc = "done"
    /\ \A kind \in {"Magic", "Sup", "Input"} : \E a \in CallSites(ret_prog) : a.name.kind = kind
    /\ \E k1, k2 \in KeysOfKind(ret_prog, {"Magic"}) :
        k1.inner = k2.inner /\ k1.adornment # k2.adornment

----------------------------------------------------------------------------
(* The node lookups of Bfs and ShortestPathAStar.                          *)

InitNodeLookup == InitBfs \/ InitAStar

NextNodeLookup ==
    \/ BfsOuter
    \/ BfsPut
    \/ AStarTurn
    \/ AStarExhausted
    \/ Trip

SpecNodeLookup == InitNodeLookup /\ [][NextNodeLookup]_vars

\* the node named by the NodeNotFound error of the run
MissingReported == IF ain.algo = "bfs" THEN al.st.missing ELSE al.missing

(* C29 as stated: a run of Bfs or of ShortestPathAStar that fails with     *)
(* NodeNotFound names as missing a destination of an edge that has no row  *)
(* in the nodes relation, and has put nothing into the output relation.    *)
C29_MissingIsAbsentDestination ==
    (apc = "done" /\ ares = "NodeNotFound") =>
        /\ MissingReported \notin ain.nodes
        /\ \E e \in ain.edges : e[2] = MissingReported
        /\ out = {}

----------------------------------------------------------------------------
(* db/eval.rs: MemoryEnv                                                   *)

MaxDepth == 3

EnvNames == {"a", "b"}

EnvData == {1, 2}

\* Option<OwnTuple>
None == <<>>

Some(data) == <<data>>

\* BTreeMap::get
MapGet(m, k) == IF k \in DOMAIN m THEN Some(m[k]) ELSE None

\* BTreeMap::remove
MapRemove(m, k) == [x \in DOMAIN m \ {k} |-> m[x]]

\* MemoryEnv::get_stack_depth
get_stack_depth(e) == -Len(e.stack)

\* MemoryEnv::push_env
push_env(e) == [e EXCEPT !.stack = Append(@, EmptyMap)]

\* MemoryEnv::pop_env
pop_env(e) ==
    IF Len(e.stack) > 1 THEN [e EXCEPT !.stack = SubSeq(@, 1, Len(@) - 1)] ELSE e

\* for layer in self.stack.iter(): the first layer that has name
RECURSIVE ResolveIn(_, _)
ResolveIn(layers, name) ==
    IF layers = <<>> THEN None
    ELSE IF name \in DOMAIN Head(layers) THEN Some(Head(layers)[name])
    ELSE ResolveIn(Tail(layers), name)

\* MemoryEnv::resolve
resolve(e, name) ==
    IF ResolveIn(e.stack, name) # None THEN ResolveIn(e.stack, name)
    ELSE MapGet(e.root, name)

\* for layer in self.stack.iter_mut().rev(): remove from the first layer that has name
RECURSIVE RemoveFromLast(_, _, _)
RemoveFromLast(layers, i, name) ==
    IF i = 0 THEN layers
    ELSE IF name \in DOMAIN layers[i]
         THEN [layers EXCEPT ![i] = MapRemove(@, name)]
         ELSE RemoveFromLast(layers, i - 1, name)

\* MemoryEnv::delete_defined
delete_defined(e, name, in_root) ==
    IF in_root THEN [e EXCEPT !.root = MapRemove(@, name)]
    ELSE [e EXCEPT !.stack = RemoveFromLast(@, Len(@), name)]

\* MemoryEnv::define_data
define_data(e, name, data, in_root) ==
    IF in_root THEN [e EXCEPT !.root = MapPut(@, name, data)]
    ELSE [e EXCEPT !.stack[Len(e.stack)] = MapPut(@, name, data)]

InitEnv ==
    /\ StratifyIdle
    /\ MagicIdle
    /\ AlgoIdle
    /\ env = [root |-> EmptyMap, stack |-> <<EmptyMap>>]

PushEnv ==
    /\ Len(env.stack) < MaxDepth
    /\ env' = push_env(env)
    /\ UNCHANGED <<svars, mvars, avars>>

PopEnv ==
    /\ env' = pop_env(env)
    /\ UNCHANGED <<svars, mvars, avars>>

DefineData ==
    /\ \E name \in EnvNames, data \in EnvData, in_root \in BOOLEAN :
        env' = define_data(env, name, data, in_root)
    /\ UNCHANGED <<svars, mvars, avars>>

DeleteDefined ==
    /\ \E name \in EnvNames, in_root \in BOOLEAN : env' = delete_defined(env, name, in_root)
    /\ UNCHANGED <<svars, mvars, avars>>

NextEnv ==
    \/ PushEnv
    \/ PopEnv
    \/ DefineData
    \/ DeleteDefined

SpecEnv == InitEnv /\ [][NextEnv]_vars

\* the frames that define name, by index
DefinedIn(e, name) == {i \in 1..Len(e.stack) : name \in DOMAIN e.stack[i]}

\* the innermost of them
InnermostDefining(e, name) ==
    CHOOSE i \in DefinedIn(e, name) : \A j \in DefinedIn(e, name) : j <= i

(* C30 as stated: the frame stack is never empty and the stack depth stays *)
(* at most -1; resolve(name) is the definition of name in the innermost    *)
(* frame that defines it, the frame from which a non-root delete_defined   *)
(* removes it, and the definition of the root map only when no frame       *)
(* defines name.                                                           *)
C30_ResolveInnermostFirst ==
    /\ Len(env.stack) >= 1
    /\ get_stack_depth(env) <= -1
    /\ pop_env(env).stack # <<>>
    /\ \A name \in EnvNames :
        /\ \A data \in EnvData :
            LET d == define_data(env, name, data, FALSE)
            IN /\ d.root = env.root
               /\ \A i \in 1..(Len(env.stack) - 1) : d.stack[i] = env.stack[i]
        /\ IF DefinedIn(env, name) = {}
           THEN /\ resolve(env, name) = MapGet(env.root, name)
                /\ delete_defined(env, name, FALSE) = env
           ELSE LET i == InnermostDefining(env, name)
                IN /\ resolve(env, name) = Some(env.stack[i][name])
                   /\ DefinedIn(delete_defined(env, name, FALSE), name)
                        = DefinedIn(env, name) \ {i}

====
